---- MODULE Spec2Model ----
(***************************************************************************)
(* Model of the Complens desktop core: the risk classifier                 *)
(* (platforms/mod.rs), the provider adapters' discovery                    *)
(* (platforms/{github,google,microsoft}.rs), the scan command              *)
(* (commands.rs) and the OAuth callback listener (oauth.rs).               *)
(*                                                                         *)
(* Rust strings whose content the code inspects (permissions, patterns,   *)
(* risk factors, HTTP requests) are sequences of one-character strings, so *)
(* that contains / strip_prefix / split / to_lowercase are computed as the *)
(* code computes them.  Strings the code only compares for equality        *)
(* (risk levels, platform names) are TLA+ strings.                         *)
(***************************************************************************)
EXTENDS Integers, Sequences, FiniteSets, TLC

VARIABLES
    \* ---- classifier harness (calculate_risk_level called on its own)
    c_perms,        \* the permission list passed to the classifier
    c_first_party,  \* the is_first_party flag passed to the classifier
    c_out,          \* what the classifier returned, or NoResult
    \* ---- storage and scan command
    apps_table,     \* rows of the apps table
    last_scanned_at,\* accounts.last_scanned_at, per account id
    clock,          \* number of scans made so far (chrono::Utc::now)
    net,            \* the provider responses met by the last scan
    apps,           \* the list platforms::scan returned to the last scan
    scan_out,       \* what the last scan_account returned, or NoResult
    \* ---- callback listener
    port_owner,     \* invocation that holds the bound port, 0 when free
    l_pc,           \* position of each wait_for_callback invocation
    l_stream,       \* the client each invocation accepted, 0 when none
    l_read,         \* the number of bytes each invocation read, None before the read
    l_accepts,      \* number of connections each invocation has accepted
    l_parsed,       \* (platform, code) extracted, kept until the write ends
    l_write,        \* outcome of write_all: "none", "ok" or "failed"
    l_out,          \* what each invocation returned, or NoResult
    backlog,        \* clients connected to the port and not yet accepted
    client,         \* each browser-side connection: state, request, response
    \* ---- adapter operations called on their own
    a_call,         \* the last operation called and its arguments, or NoCall
    a_net,          \* the provider responses met by that call
    a_out,          \* what that call returned, or NoResult
    \* ---- commands called by concurrent tasks
    db_lock,        \* task that holds the guard of Database.conn, 0 when free
    t_pc,           \* position of each task: "idle" or "awaiting" the adapter
    t_account,      \* the account row read by each task's scan in flight
    t_net,          \* the provider responses that scan has received so far
    cmd_out         \* the last command that returned: arguments and result

cvars == << c_perms, c_first_party, c_out >>
svars == << apps_table, last_scanned_at, clock, net, apps, scan_out >>
lvars == << port_owner, l_pc, l_stream, l_read, l_accepts, l_parsed, l_write, l_out,
            backlog, client >>
avars == << a_call, a_net, a_out >>
tvars == << db_lock, t_pc, t_account, t_net, cmd_out >>
vars == << cvars, svars, lvars, avars, tvars >>

(***************************************************************************)
(* Bounds of the model.                                                    *)
(***************************************************************************)
MaxPerms == 2
MaxGrants == 2
MaxInstallations == 1
MaxScans == 2
MaxInvocations == 2
MaxClients == 2
MaxTasks == 2

NoResult == [kind |-> "none"]

(***************************************************************************)
(* String primitives of the Rust standard library, on character sequences. *)
(***************************************************************************)
Digits == { "0", "1", "2", "3", "4", "5", "6", "7", "8", "9" }
HexDigits == << "0", "1", "2", "3", "4", "5", "6", "7", "8", "9",
                "A", "B", "C", "D", "E", "F" >>
\* the printable ASCII characters, from code 32 (space) to 126 (code 96,
\* the grave accent, cannot be written in a string and is spelled out)
Ascii ==
    << " ", "!", "\"", "#", "$", "%", "&", "'", "(", ")", "*", "+", ",", "-", ".", "/",
       "0", "1", "2", "3", "4", "5", "6", "7", "8", "9", ":", ";", "<", "=", ">", "?",
       "@", "A", "B", "C", "D", "E", "F", "G", "H", "I", "J", "K", "L", "M", "N", "O",
       "P", "Q", "R", "S", "T", "U", "V", "W", "X", "Y", "Z", "[", "\\", "]", "^", "_",
       "<U+0060>", "a", "b", "c", "d", "e", "f", "g", "h", "i", "j", "k", "l", "m", "n", "o",
       "p", "q", "r", "s", "t", "u", "v", "w", "x", "y", "z", "{", "|", "}", "~" >>
ReplacementChar == "<U+FFFD>"

is_printable_ascii(ch) == \E k \in 1..Len(Ascii) : Ascii[k] = ch

\* the byte of a printable ASCII character
char_byte(ch) == 31 + CHOOSE k \in 1..Len(Ascii) : Ascii[k] = ch

\* the character of code point cp: itself where a string can hold it, its
\* name "<U+XXXX>" otherwise
RECURSIVE hex_digits(_, _)
hex_digits(n, width) ==
    IF n = 0 /\ width <= 0 THEN ""
    ELSE hex_digits(n \div 16, width - 1) \o HexDigits[(n % 16) + 1]

char_of(cp) ==
    IF cp >= 32 /\ cp <= 126 THEN Ascii[cp - 31]
    ELSE CASE cp = 9  -> "\t"
           [] cp = 10 -> "\n"
           [] cp = 12 -> "\f"
           [] cp = 13 -> "\r"
           [] OTHER   -> "<U+" \o hex_digits(cp, 4) \o ">"

\* the code point of a character, from the character or from its name
RECURSIVE hex_number(_, _, _)
hex_number(name, i, acc) ==
    IF i >= Len(name) THEN acc
    ELSE hex_number(name, i + 1,
            16 * acc + (CHOOSE k \in 0..15 : HexDigits[k + 1] = SubSeq(name, i, i)))
code_point(ch) ==
    IF Len(ch) > 1 THEN hex_number(ch, 4, 0)
    ELSE CASE ch = "\t" -> 9
           [] ch = "\n" -> 10
           [] ch = "\f" -> 12
           [] ch = "\r" -> 13
           [] OTHER     -> char_byte(ch)

\* cp is one of the code points first, first + step, .. of a range
in_range(r, cp) == cp >= r[1] /\ cp <= r[2] /\ (cp - r[1]) % r[3] = 0
\* the code points of a list of ranges << first, last >>
code_points(ranges) == UNION { ranges[k][1]..ranges[k][2] : k \in 1..Len(ranges) }

\* char::to_lowercase: the simple lowercase mappings of UnicodeData.txt
\* (Unicode 17.0, 1487 code points), as << first, last, step, delta >>:
\* every step-th code point of first..last maps to itself + delta
LowerRanges ==
    << << 65, 90, 1, 32 >>, << 192, 214, 1, 32 >>, << 216, 222, 1, 32 >>,
       << 256, 302, 2, 1 >>, << 306, 310, 2, 1 >>, << 313, 327, 2, 1 >>,
       << 330, 374, 2, 1 >>, << 376, 376, 1, -121 >>, << 377, 381, 2, 1 >>,
       << 385, 385, 1, 210 >>, << 386, 388, 2, 1 >>, << 390, 390, 1, 206 >>,
       << 391, 391, 1, 1 >>, << 393, 394, 1, 205 >>, << 395, 395, 1, 1 >>,
       << 398, 398, 1, 79 >>, << 399, 399, 1, 202 >>, << 400, 400, 1, 203 >>,
       << 401, 401, 1, 1 >>, << 403, 403, 1, 205 >>, << 404, 404, 1, 207 >>,
       << 406, 406, 1, 211 >>, << 407, 407, 1, 209 >>, << 408, 408, 1, 1 >>,
       << 412, 412, 1, 211 >>, << 413, 413, 1, 213 >>,
       << 415, 415, 1, 214 >>, << 416, 420, 2, 1 >>, << 422, 422, 1, 218 >>,
       << 423, 423, 1, 1 >>, << 425, 425, 1, 218 >>, << 428, 428, 1, 1 >>,
       << 430, 430, 1, 218 >>, << 431, 431, 1, 1 >>, << 433, 434, 1, 217 >>,
       << 435, 437, 2, 1 >>, << 439, 439, 1, 219 >>, << 440, 440, 1, 1 >>,
       << 444, 444, 1, 1 >>, << 452, 452, 1, 2 >>, << 453, 453, 1, 1 >>,
       << 455, 455, 1, 2 >>, << 456, 456, 1, 1 >>, << 458, 458, 1, 2 >>,
       << 459, 475, 2, 1 >>, << 478, 494, 2, 1 >>, << 497, 497, 1, 2 >>,
       << 498, 500, 2, 1 >>, << 502, 502, 1, -97 >>, << 503, 503, 1, -56 >>,
       << 504, 542, 2, 1 >>, << 544, 544, 1, -130 >>, << 546, 562, 2, 1 >>,
       << 570, 570, 1, 10795 >>, << 571, 571, 1, 1 >>,
       << 573, 573, 1, -163 >>, << 574, 574, 1, 10792 >>,
       << 577, 577, 1, 1 >>, << 579, 579, 1, -195 >>, << 580, 580, 1, 69 >>,
       << 581, 581, 1, 71 >>, << 582, 590, 2, 1 >>, << 880, 882, 2, 1 >>,
       << 886, 886, 1, 1 >>, << 895, 895, 1, 116 >>, << 902, 902, 1, 38 >>,
       << 904, 906, 1, 37 >>, << 908, 908, 1, 64 >>, << 910, 911, 1, 63 >>,
       << 913, 929, 1, 32 >>, << 931, 939, 1, 32 >>, << 975, 975, 1, 8 >>,
       << 984, 1006, 2, 1 >>, << 1012, 1012, 1, -60 >>,
       << 1015, 1015, 1, 1 >>, << 1017, 1017, 1, -7 >>,
       << 1018, 1018, 1, 1 >>, << 1021, 1023, 1, -130 >>,
       << 1024, 1039, 1, 80 >>, << 1040, 1071, 1, 32 >>,
       << 1120, 1152, 2, 1 >>, << 1162, 1214, 2, 1 >>,
       << 1216, 1216, 1, 15 >>, << 1217, 1229, 2, 1 >>,
       << 1232, 1326, 2, 1 >>, << 1329, 1366, 1, 48 >>,
       << 4256, 4293, 1, 7264 >>, << 4295, 4295, 1, 7264 >>,
       << 4301, 4301, 1, 7264 >>, << 5024, 5103, 1, 38864 >>,
       << 5104, 5109, 1, 8 >>, << 7305, 7305, 1, 1 >>,
       << 7312, 7354, 1, -3008 >>, << 7357, 7359, 1, -3008 >>,
       << 7680, 7828, 2, 1 >>, << 7838, 7838, 1, -7615 >>,
       << 7840, 7934, 2, 1 >>, << 7944, 7951, 1, -8 >>,
       << 7960, 7965, 1, -8 >>, << 7976, 7983, 1, -8 >>,
       << 7992, 7999, 1, -8 >>, << 8008, 8013, 1, -8 >>,
       << 8025, 8031, 2, -8 >>, << 8040, 8047, 1, -8 >>,
       << 8072, 8079, 1, -8 >>, << 8088, 8095, 1, -8 >>,
       << 8104, 8111, 1, -8 >>, << 8120, 8121, 1, -8 >>,
       << 8122, 8123, 1, -74 >>, << 8124, 8124, 1, -9 >>,
       << 8136, 8139, 1, -86 >>, << 8140, 8140, 1, -9 >>,
       << 8152, 8153, 1, -8 >>, << 8154, 8155, 1, -100 >>,
       << 8168, 8169, 1, -8 >>, << 8170, 8171, 1, -112 >>,
       << 8172, 8172, 1, -7 >>, << 8184, 8185, 1, -128 >>,
       << 8186, 8187, 1, -126 >>, << 8188, 8188, 1, -9 >>,
       << 8486, 8486, 1, -7517 >>, << 8490, 8490, 1, -8383 >>,
       << 8491, 8491, 1, -8262 >>, << 8498, 8498, 1, 28 >>,
       << 8544, 8559, 1, 16 >>, << 8579, 8579, 1, 1 >>,
       << 9398, 9423, 1, 26 >>, << 11264, 11311, 1, 48 >>,
       << 11360, 11360, 1, 1 >>, << 11362, 11362, 1, -10743 >>,
       << 11363, 11363, 1, -3814 >>, << 11364, 11364, 1, -10727 >>,
       << 11367, 11371, 2, 1 >>, << 11373, 11373, 1, -10780 >>,
       << 11374, 11374, 1, -10749 >>, << 11375, 11375, 1, -10783 >>,
       << 11376, 11376, 1, -10782 >>, << 11378, 11378, 1, 1 >>,
       << 11381, 11381, 1, 1 >>, << 11390, 11391, 1, -10815 >>,
       << 11392, 11490, 2, 1 >>, << 11499, 11501, 2, 1 >>,
       << 11506, 11506, 1, 1 >>, << 42560, 42604, 2, 1 >>,
       << 42624, 42650, 2, 1 >>, << 42786, 42798, 2, 1 >>,
       << 42802, 42862, 2, 1 >>, << 42873, 42875, 2, 1 >>,
       << 42877, 42877, 1, -35332 >>, << 42878, 42886, 2, 1 >>,
       << 42891, 42891, 1, 1 >>, << 42893, 42893, 1, -42280 >>,
       << 42896, 42898, 2, 1 >>, << 42902, 42920, 2, 1 >>,
       << 42922, 42922, 1, -42308 >>, << 42923, 42923, 1, -42319 >>,
       << 42924, 42924, 1, -42315 >>, << 42925, 42925, 1, -42305 >>,
       << 42926, 42926, 1, -42308 >>, << 42928, 42928, 1, -42258 >>,
       << 42929, 42929, 1, -42282 >>, << 42930, 42930, 1, -42261 >>,
       << 42931, 42931, 1, 928 >>, << 42932, 42946, 2, 1 >>,
       << 42948, 42948, 1, -48 >>, << 42949, 42949, 1, -42307 >>,
       << 42950, 42950, 1, -35384 >>, << 42951, 42953, 2, 1 >>,
       << 42955, 42955, 1, -42343 >>, << 42956, 42970, 2, 1 >>,
       << 42972, 42972, 1, -42561 >>, << 42997, 42997, 1, 1 >>,
       << 65313, 65338, 1, 32 >>, << 66560, 66599, 1, 40 >>,
       << 66736, 66771, 1, 40 >>, << 66928, 66938, 1, 39 >>,
       << 66940, 66954, 1, 39 >>, << 66956, 66962, 1, 39 >>,
       << 66964, 66965, 1, 39 >>, << 68736, 68786, 1, 64 >>,
       << 68944, 68965, 1, 32 >>, << 71840, 71871, 1, 32 >>,
       << 93760, 93791, 1, 32 >>, << 93856, 93880, 1, 27 >>,
       << 125184, 125217, 1, 34 >> >>

\* the code points each capital maps to: one, but for U+0130, which maps
\* to i and U+0307 (SpecialCasing.txt)
LowerMap ==
    [cp \in UNION { { c \in LowerRanges[k][1]..LowerRanges[k][2] : in_range(LowerRanges[k], c) } :
                    k \in 1..Len(LowerRanges) } |->
        << cp + LowerRanges[CHOOSE k \in 1..Len(LowerRanges) : in_range(LowerRanges[k], cp)][4] >>]
    @@ (304 :> << 105, 775 >>)

CapitalSigma == "<U+03A3>"
SmallSigma == "<U+03C3>"
FinalSigma == "<U+03C2>"

\* the lowercase mapping of the character ch, of code point cp, in the
\* table m
lower_of(m, cp, ch) ==
    IF cp \in DOMAIN m THEN [k \in 1..Len(m[cp]) |-> char_of(m[cp][k])] ELSE << ch >>
lower_with(m, ch) == lower_of(m, code_point(ch), ch)

\* the property Cased (DerivedCoreProperties.txt), as << first, last >>
CasedRanges ==
    << << 65, 90 >>, << 97, 122 >>, << 170, 170 >>, << 181, 181 >>,
       << 186, 186 >>, << 192, 214 >>, << 216, 246 >>, << 248, 442 >>,
       << 444, 447 >>, << 452, 659 >>, << 662, 696 >>, << 704, 705 >>,
       << 736, 740 >>, << 837, 837 >>, << 880, 883 >>, << 886, 887 >>,
       << 890, 893 >>, << 895, 895 >>, << 902, 902 >>, << 904, 906 >>,
       << 908, 908 >>, << 910, 929 >>, << 931, 1013 >>, << 1015, 1153 >>,
       << 1162, 1327 >>, << 1329, 1366 >>, << 1376, 1416 >>,
       << 4256, 4293 >>, << 4295, 4295 >>, << 4301, 4301 >>,
       << 4304, 4346 >>, << 4348, 4351 >>, << 5024, 5109 >>,
       << 5112, 5117 >>, << 7296, 7306 >>, << 7312, 7354 >>,
       << 7357, 7359 >>, << 7424, 7615 >>, << 7680, 7957 >>,
       << 7960, 7965 >>, << 7968, 8005 >>, << 8008, 8013 >>,
       << 8016, 8023 >>, << 8025, 8025 >>, << 8027, 8027 >>,
       << 8029, 8029 >>, << 8031, 8061 >>, << 8064, 8116 >>,
       << 8118, 8124 >>, << 8126, 8126 >>, << 8130, 8132 >>,
       << 8134, 8140 >>, << 8144, 8147 >>, << 8150, 8155 >>,
       << 8160, 8172 >>, << 8178, 8180 >>, << 8182, 8188 >>,
       << 8305, 8305 >>, << 8319, 8319 >>, << 8336, 8348 >>,
       << 8450, 8450 >>, << 8455, 8455 >>, << 8458, 8467 >>,
       << 8469, 8469 >>, << 8473, 8477 >>, << 8484, 8484 >>,
       << 8486, 8486 >>, << 8488, 8488 >>, << 8490, 8493 >>,
       << 8495, 8500 >>, << 8505, 8505 >>, << 8508, 8511 >>,
       << 8517, 8521 >>, << 8526, 8526 >>, << 8544, 8575 >>,
       << 8579, 8580 >>, << 9398, 9449 >>, << 11264, 11492 >>,
       << 11499, 11502 >>, << 11506, 11507 >>, << 11520, 11557 >>,
       << 11559, 11559 >>, << 11565, 11565 >>, << 42560, 42605 >>,
       << 42624, 42653 >>, << 42786, 42887 >>, << 42891, 42894 >>,
       << 42896, 42972 >>, << 42993, 42998 >>, << 43000, 43002 >>,
       << 43824, 43866 >>, << 43868, 43881 >>, << 43888, 43967 >>,
       << 64256, 64262 >>, << 64275, 64279 >>, << 65313, 65338 >>,
       << 65345, 65370 >>, << 66560, 66639 >>, << 66736, 66771 >>,
       << 66776, 66811 >>, << 66928, 66938 >>, << 66940, 66954 >>,
       << 66956, 66962 >>, << 66964, 66965 >>, << 66967, 66977 >>,
       << 66979, 66993 >>, << 66995, 67001 >>, << 67003, 67004 >>,
       << 67456, 67456 >>, << 67459, 67461 >>, << 67463, 67504 >>,
       << 67506, 67514 >>, << 68736, 68786 >>, << 68800, 68850 >>,
       << 68944, 68965 >>, << 68976, 68997 >>, << 71840, 71903 >>,
       << 93760, 93823 >>, << 93856, 93880 >>, << 93883, 93907 >>,
       << 119808, 119892 >>, << 119894, 119964 >>, << 119966, 119967 >>,
       << 119970, 119970 >>, << 119973, 119974 >>, << 119977, 119980 >>,
       << 119982, 119993 >>, << 119995, 119995 >>, << 119997, 120003 >>,
       << 120005, 120069 >>, << 120071, 120074 >>, << 120077, 120084 >>,
       << 120086, 120092 >>, << 120094, 120121 >>, << 120123, 120126 >>,
       << 120128, 120132 >>, << 120134, 120134 >>, << 120138, 120144 >>,
       << 120146, 120485 >>, << 120488, 120512 >>, << 120514, 120538 >>,
       << 120540, 120570 >>, << 120572, 120596 >>, << 120598, 120628 >>,
       << 120630, 120654 >>, << 120656, 120686 >>, << 120688, 120712 >>,
       << 120714, 120744 >>, << 120746, 120770 >>, << 120772, 120779 >>,
       << 122624, 122633 >>, << 122635, 122654 >>, << 122661, 122666 >>,
       << 122928, 122989 >>, << 125184, 125251 >>, << 127280, 127305 >>,
       << 127312, 127337 >>, << 127344, 127369 >> >>

\* the property Case_Ignorable (DerivedCoreProperties.txt), as
\* << first, last >>
CaseIgnorableRanges ==
    << << 39, 39 >>, << 46, 46 >>, << 58, 58 >>, << 94, 94 >>, << 96, 96 >>,
       << 168, 168 >>, << 173, 173 >>, << 175, 175 >>, << 180, 180 >>,
       << 183, 184 >>, << 688, 879 >>, << 884, 885 >>, << 890, 890 >>,
       << 900, 901 >>, << 903, 903 >>, << 1155, 1161 >>, << 1369, 1369 >>,
       << 1375, 1375 >>, << 1425, 1469 >>, << 1471, 1471 >>,
       << 1473, 1474 >>, << 1476, 1477 >>, << 1479, 1479 >>,
       << 1524, 1524 >>, << 1536, 1541 >>, << 1552, 1562 >>,
       << 1564, 1564 >>, << 1600, 1600 >>, << 1611, 1631 >>,
       << 1648, 1648 >>, << 1750, 1757 >>, << 1759, 1768 >>,
       << 1770, 1773 >>, << 1807, 1807 >>, << 1809, 1809 >>,
       << 1840, 1866 >>, << 1958, 1968 >>, << 2027, 2037 >>,
       << 2042, 2042 >>, << 2045, 2045 >>, << 2070, 2093 >>,
       << 2137, 2139 >>, << 2184, 2184 >>, << 2192, 2193 >>,
       << 2199, 2207 >>, << 2249, 2306 >>, << 2362, 2362 >>,
       << 2364, 2364 >>, << 2369, 2376 >>, << 2381, 2381 >>,
       << 2385, 2391 >>, << 2402, 2403 >>, << 2417, 2417 >>,
       << 2433, 2433 >>, << 2492, 2492 >>, << 2497, 2500 >>,
       << 2509, 2509 >>, << 2530, 2531 >>, << 2558, 2558 >>,
       << 2561, 2562 >>, << 2620, 2620 >>, << 2625, 2626 >>,
       << 2631, 2632 >>, << 2635, 2637 >>, << 2641, 2641 >>,
       << 2672, 2673 >>, << 2677, 2677 >>, << 2689, 2690 >>,
       << 2748, 2748 >>, << 2753, 2757 >>, << 2759, 2760 >>,
       << 2765, 2765 >>, << 2786, 2787 >>, << 2810, 2815 >>,
       << 2817, 2817 >>, << 2876, 2876 >>, << 2879, 2879 >>,
       << 2881, 2884 >>, << 2893, 2893 >>, << 2901, 2902 >>,
       << 2914, 2915 >>, << 2946, 2946 >>, << 3008, 3008 >>,
       << 3021, 3021 >>, << 3072, 3072 >>, << 3076, 3076 >>,
       << 3132, 3132 >>, << 3134, 3136 >>, << 3142, 3144 >>,
       << 3146, 3149 >>, << 3157, 3158 >>, << 3170, 3171 >>,
       << 3201, 3201 >>, << 3260, 3260 >>, << 3263, 3263 >>,
       << 3270, 3270 >>, << 3276, 3277 >>, << 3298, 3299 >>,
       << 3328, 3329 >>, << 3387, 3388 >>, << 3393, 3396 >>,
       << 3405, 3405 >>, << 3426, 3427 >>, << 3457, 3457 >>,
       << 3530, 3530 >>, << 3538, 3540 >>, << 3542, 3542 >>,
       << 3633, 3633 >>, << 3636, 3642 >>, << 3654, 3662 >>,
       << 3761, 3761 >>, << 3764, 3772 >>, << 3782, 3782 >>,
       << 3784, 3790 >>, << 3864, 3865 >>, << 3893, 3893 >>,
       << 3895, 3895 >>, << 3897, 3897 >>, << 3953, 3966 >>,
       << 3968, 3972 >>, << 3974, 3975 >>, << 3981, 3991 >>,
       << 3993, 4028 >>, << 4038, 4038 >>, << 4141, 4144 >>,
       << 4146, 4151 >>, << 4153, 4154 >>, << 4157, 4158 >>,
       << 4184, 4185 >>, << 4190, 4192 >>, << 4209, 4212 >>,
       << 4226, 4226 >>, << 4229, 4230 >>, << 4237, 4237 >>,
       << 4253, 4253 >>, << 4348, 4348 >>, << 4957, 4959 >>,
       << 5906, 5908 >>, << 5938, 5939 >>, << 5970, 5971 >>,
       << 6002, 6003 >>, << 6068, 6069 >>, << 6071, 6077 >>,
       << 6086, 6086 >>, << 6089, 6099 >>, << 6103, 6103 >>,
       << 6109, 6109 >>, << 6155, 6159 >>, << 6211, 6211 >>,
       << 6277, 6278 >>, << 6313, 6313 >>, << 6432, 6434 >>,
       << 6439, 6440 >>, << 6450, 6450 >>, << 6457, 6459 >>,
       << 6679, 6680 >>, << 6683, 6683 >>, << 6742, 6742 >>,
       << 6744, 6750 >>, << 6752, 6752 >>, << 6754, 6754 >>,
       << 6757, 6764 >>, << 6771, 6780 >>, << 6783, 6783 >>,
       << 6823, 6823 >>, << 6832, 6877 >>, << 6880, 6891 >>,
       << 6912, 6915 >>, << 6964, 6964 >>, << 6966, 6970 >>,
       << 6972, 6972 >>, << 6978, 6978 >>, << 7019, 7027 >>,
       << 7040, 7041 >>, << 7074, 7077 >>, << 7080, 7081 >>,
       << 7083, 7085 >>, << 7142, 7142 >>, << 7144, 7145 >>,
       << 7149, 7149 >>, << 7151, 7153 >>, << 7212, 7219 >>,
       << 7222, 7223 >>, << 7288, 7293 >>, << 7376, 7378 >>,
       << 7380, 7392 >>, << 7394, 7400 >>, << 7405, 7405 >>,
       << 7412, 7412 >>, << 7416, 7417 >>, << 7468, 7530 >>,
       << 7544, 7544 >>, << 7579, 7679 >>, << 8125, 8125 >>,
       << 8127, 8129 >>, << 8141, 8143 >>, << 8157, 8159 >>,
       << 8173, 8175 >>, << 8189, 8190 >>, << 8203, 8207 >>,
       << 8216, 8217 >>, << 8228, 8228 >>, << 8231, 8231 >>,
       << 8234, 8238 >>, << 8288, 8292 >>, << 8294, 8303 >>,
       << 8305, 8305 >>, << 8319, 8319 >>, << 8336, 8348 >>,
       << 8400, 8432 >>, << 11388, 11389 >>, << 11503, 11505 >>,
       << 11631, 11631 >>, << 11647, 11647 >>, << 11744, 11775 >>,
       << 11823, 11823 >>, << 12293, 12293 >>, << 12330, 12333 >>,
       << 12337, 12341 >>, << 12347, 12347 >>, << 12441, 12446 >>,
       << 12540, 12542 >>, << 40981, 40981 >>, << 42232, 42237 >>,
       << 42508, 42508 >>, << 42607, 42610 >>, << 42612, 42621 >>,
       << 42623, 42623 >>, << 42652, 42655 >>, << 42736, 42737 >>,
       << 42752, 42785 >>, << 42864, 42864 >>, << 42888, 42890 >>,
       << 42993, 42996 >>, << 43000, 43001 >>, << 43010, 43010 >>,
       << 43014, 43014 >>, << 43019, 43019 >>, << 43045, 43046 >>,
       << 43052, 43052 >>, << 43204, 43205 >>, << 43232, 43249 >>,
       << 43263, 43263 >>, << 43302, 43309 >>, << 43335, 43345 >>,
       << 43392, 43394 >>, << 43443, 43443 >>, << 43446, 43449 >>,
       << 43452, 43453 >>, << 43471, 43471 >>, << 43493, 43494 >>,
       << 43561, 43566 >>, << 43569, 43570 >>, << 43573, 43574 >>,
       << 43587, 43587 >>, << 43596, 43596 >>, << 43632, 43632 >>,
       << 43644, 43644 >>, << 43696, 43696 >>, << 43698, 43700 >>,
       << 43703, 43704 >>, << 43710, 43711 >>, << 43713, 43713 >>,
       << 43741, 43741 >>, << 43756, 43757 >>, << 43763, 43764 >>,
       << 43766, 43766 >>, << 43867, 43871 >>, << 43881, 43883 >>,
       << 44005, 44005 >>, << 44008, 44008 >>, << 44013, 44013 >>,
       << 64286, 64286 >>, << 64434, 64450 >>, << 65024, 65039 >>,
       << 65043, 65043 >>, << 65056, 65071 >>, << 65106, 65106 >>,
       << 65109, 65109 >>, << 65279, 65279 >>, << 65287, 65287 >>,
       << 65294, 65294 >>, << 65306, 65306 >>, << 65342, 65342 >>,
       << 65344, 65344 >>, << 65392, 65392 >>, << 65438, 65439 >>,
       << 65507, 65507 >>, << 65529, 65531 >>, << 66045, 66045 >>,
       << 66272, 66272 >>, << 66422, 66426 >>, << 67456, 67461 >>,
       << 67463, 67504 >>, << 67506, 67514 >>, << 68097, 68099 >>,
       << 68101, 68102 >>, << 68108, 68111 >>, << 68152, 68154 >>,
       << 68159, 68159 >>, << 68325, 68326 >>, << 68900, 68903 >>,
       << 68942, 68942 >>, << 68969, 68973 >>, << 68975, 68975 >>,
       << 69291, 69292 >>, << 69317, 69317 >>, << 69370, 69375 >>,
       << 69446, 69456 >>, << 69506, 69509 >>, << 69633, 69633 >>,
       << 69688, 69702 >>, << 69744, 69744 >>, << 69747, 69748 >>,
       << 69759, 69761 >>, << 69811, 69814 >>, << 69817, 69818 >>,
       << 69821, 69821 >>, << 69826, 69826 >>, << 69837, 69837 >>,
       << 69888, 69890 >>, << 69927, 69931 >>, << 69933, 69940 >>,
       << 70003, 70003 >>, << 70016, 70017 >>, << 70070, 70078 >>,
       << 70089, 70092 >>, << 70095, 70095 >>, << 70191, 70193 >>,
       << 70196, 70196 >>, << 70198, 70199 >>, << 70206, 70206 >>,
       << 70209, 70209 >>, << 70367, 70367 >>, << 70371, 70378 >>,
       << 70400, 70401 >>, << 70459, 70460 >>, << 70464, 70464 >>,
       << 70502, 70508 >>, << 70512, 70516 >>, << 70587, 70592 >>,
       << 70606, 70606 >>, << 70608, 70608 >>, << 70610, 70610 >>,
       << 70625, 70626 >>, << 70712, 70719 >>, << 70722, 70724 >>,
       << 70726, 70726 >>, << 70750, 70750 >>, << 70835, 70840 >>,
       << 70842, 70842 >>, << 70847, 70848 >>, << 70850, 70851 >>,
       << 71090, 71093 >>, << 71100, 71101 >>, << 71103, 71104 >>,
       << 71132, 71133 >>, << 71219, 71226 >>, << 71229, 71229 >>,
       << 71231, 71232 >>, << 71339, 71339 >>, << 71341, 71341 >>,
       << 71344, 71349 >>, << 71351, 71351 >>, << 71453, 71453 >>,
       << 71455, 71455 >>, << 71458, 71461 >>, << 71463, 71467 >>,
       << 71727, 71735 >>, << 71737, 71738 >>, << 71995, 71996 >>,
       << 71998, 71998 >>, << 72003, 72003 >>, << 72148, 72151 >>,
       << 72154, 72155 >>, << 72160, 72160 >>, << 72193, 72202 >>,
       << 72243, 72248 >>, << 72251, 72254 >>, << 72263, 72263 >>,
       << 72273, 72278 >>, << 72281, 72283 >>, << 72330, 72342 >>,
       << 72344, 72345 >>, << 72544, 72544 >>, << 72546, 72548 >>,
       << 72550, 72550 >>, << 72752, 72758 >>, << 72760, 72765 >>,
       << 72767, 72767 >>, << 72850, 72871 >>, << 72874, 72880 >>,
       << 72882, 72883 >>, << 72885, 72886 >>, << 73009, 73014 >>,
       << 73018, 73018 >>, << 73020, 73021 >>, << 73023, 73029 >>,
       << 73031, 73031 >>, << 73104, 73105 >>, << 73109, 73109 >>,
       << 73111, 73111 >>, << 73177, 73177 >>, << 73459, 73460 >>,
       << 73472, 73473 >>, << 73526, 73530 >>, << 73536, 73536 >>,
       << 73538, 73538 >>, << 73562, 73562 >>, << 78896, 78912 >>,
       << 78919, 78933 >>, << 90398, 90409 >>, << 90413, 90415 >>,
       << 92912, 92916 >>, << 92976, 92982 >>, << 92992, 92995 >>,
       << 93504, 93506 >>, << 93547, 93548 >>, << 94031, 94031 >>,
       << 94095, 94111 >>, << 94176, 94177 >>, << 94179, 94180 >>,
       << 94194, 94195 >>, << 110576, 110579 >>, << 110581, 110587 >>,
       << 110589, 110590 >>, << 113821, 113822 >>, << 113824, 113827 >>,
       << 118528, 118573 >>, << 118576, 118598 >>, << 119143, 119145 >>,
       << 119155, 119170 >>, << 119173, 119179 >>, << 119210, 119213 >>,
       << 119362, 119364 >>, << 121344, 121398 >>, << 121403, 121452 >>,
       << 121461, 121461 >>, << 121476, 121476 >>, << 121499, 121503 >>,
       << 121505, 121519 >>, << 122880, 122886 >>, << 122888, 122904 >>,
       << 122907, 122913 >>, << 122915, 122916 >>, << 122918, 122922 >>,
       << 122928, 122989 >>, << 123023, 123023 >>, << 123184, 123197 >>,
       << 123566, 123566 >>, << 123628, 123631 >>, << 124139, 124143 >>,
       << 124398, 124399 >>, << 124643, 124643 >>, << 124646, 124646 >>,
       << 124654, 124655 >>, << 124661, 124661 >>, << 124671, 124671 >>,
       << 125136, 125142 >>, << 125252, 125259 >>, << 127995, 127999 >>,
       << 917505, 917505 >>, << 917536, 917631 >>, << 917760, 917999 >> >>

\* the tables str::to_lowercase works with
CaseTables ==
    [lower |-> LowerMap, cased |-> code_points(CasedRanges),
     ignorable |-> code_points(CaseIgnorableRanges)]

is_cased(u, ch) == code_point(ch) \in u.cased
is_case_ignorable(u, ch) == code_point(ch) \in u.ignorable

\* the first character at or after i (dir = 1) or at or before i
\* (dir = -1) that is not Case_Ignorable is Cased
RECURSIVE case_ignorable_then_cased(_, _, _, _)
case_ignorable_then_cased(u, s, i, dir) ==
    IF i < 1 \/ i > Len(s) THEN FALSE
    ELSE IF is_case_ignorable(u, s[i]) THEN case_ignorable_then_cased(u, s, i + dir, dir)
    ELSE is_cased(u, s[i])

\* a capital sigma at the end of a word becomes the final sigma
map_uppercase_sigma(u, s, i) ==
    IF /\ case_ignorable_then_cased(u, s, i - 1, -1)
       /\ ~ case_ignorable_then_cased(u, s, i + 1, 1)
    THEN FinalSigma
    ELSE SmallSigma

RECURSIVE lower_from(_, _, _)
lower_from(u, s, i) ==
    IF i > Len(s) THEN << >>
    ELSE (IF s[i] = CapitalSigma
          THEN << map_uppercase_sigma(u, s, i) >>
          ELSE lower_with(u.lower, s[i]))
         \o lower_from(u, s, i + 1)

\* str::to_lowercase
to_lowercase(s) == lower_from(CaseTables, s, 1)

\* str::contains(pat)
contains(s, pat) ==
    \E i \in 0..(Len(s) - Len(pat)) : SubSeq(s, i + 1, i + Len(pat)) = pat

\* str::starts_with(pat)
starts_with(s, pat) ==
    /\ Len(pat) <= Len(s)
    /\ SubSeq(s, 1, Len(pat)) = pat

(***************************************************************************)
(* Risk classifier: platforms/mod.rs, calculate_risk_level.                *)
(***************************************************************************)
high_risk_patterns ==
    << <<"m","a","i","l",".","s","e","n","d">>,
       <<"m","a","i","l",".","r","e","a","d","w","r","i","t","e">>,
       <<"g","m","a","i","l",".","s","e","n","d">>,
       <<"g","m","a","i","l",".","m","o","d","i","f","y">>,
       <<"f","i","l","e","s",".","r","e","a","d","w","r","i","t","e">>,
       <<"d","r","i","v","e",".","f","i","l","e">>,
       <<"d","r","i","v","e">>,
       <<"a","d","m","i","n">>,
       <<"d","i","r","e","c","t","o","r","y",".","r","e","a","d","w","r","i","t","e">>,
       <<"u","s","e","r",".","r","e","a","d","w","r","i","t","e">>,
       <<"r","e","p","o">>,
       <<"d","e","l","e","t","e">>,
       <<"w","r","i","t","e",":","o","r","g">> >>

\* mutant: the medium list without its last pattern, "read:user"
medium_risk_patterns_without_read_user ==
    LET all == << <<"m","a","i","l",".","r","e","a","d">>,
                  <<"g","m","a","i","l",".","r","e","a","d","o","n","l","y">>,
                  <<"c","a","l","e","n","d","a","r",".","r","e","a","d","w","r","i","t","e">>,
                  <<"c","o","n","t","a","c","t","s">>,
                  <<"f","i","l","e","s",".","r","e","a","d">>,
                  <<"d","r","i","v","e",".","r","e","a","d","o","n","l","y">>,
                  <<"u","s","e","r",".","r","e","a","d">>,
                  <<"p","r","o","f","i","l","e">>,
                  <<"r","e","a","d",":","o","r","g">>,
                  <<"r","e","a","d",":","u","s","e","r">> >>
    IN  SubSeq(all, 1, Len(all) - 1)

medium_risk_patterns ==
    << <<"m","a","i","l",".","r","e","a","d">>,
       <<"g","m","a","i","l",".","r","e","a","d","o","n","l","y">>,
       <<"c","a","l","e","n","d","a","r",".","r","e","a","d","w","r","i","t","e">>,
       <<"c","o","n","t","a","c","t","s">>,
       <<"f","i","l","e","s",".","r","e","a","d">>,
       <<"d","r","i","v","e",".","r","e","a","d","o","n","l","y">>,
       <<"u","s","e","r",".","r","e","a","d">>,
       <<"p","r","o","f","i","l","e">>,
       <<"r","e","a","d",":","o","r","g">>,
       <<"r","e","a","d",":","u","s","e","r">> >>

HighFactorPrefix == <<"H","a","s"," ","h","i","g","h","-","r","i","s","k"," ","p","e","r","m","i","s","s","i","o","n",":"," ">>
MediumFactorPrefix == <<"H","a","s"," ","s","e","n","s","i","t","i","v","e"," ","p","e","r","m","i","s","s","i","o","n",":"," ">>

\* perms_lower.iter().any(|p| p.contains(pattern))
any_contains(perms_lower, pattern) ==
    \E k \in 1..Len(perms_lower) : contains(perms_lower[k], pattern)

\* mutant: the high loop stops at the first pattern that matches
RECURSIVE high_loop_first_match(_, _, _)
high_loop_first_match(perms_lower, risk_factors, i) ==
    IF i > Len(high_risk_patterns) THEN risk_factors
    ELSE IF any_contains(perms_lower, high_risk_patterns[i])
         THEN Append(risk_factors, HighFactorPrefix \o high_risk_patterns[i])
         ELSE high_loop_first_match(perms_lower, risk_factors, i + 1)

\* for pattern in high_risk_patterns { if any { push(format!(..)) } }
RECURSIVE high_loop(_, _, _)
high_loop(perms_lower, risk_factors, i) ==
    IF i > Len(high_risk_patterns) THEN risk_factors
    ELSE IF any_contains(perms_lower, high_risk_patterns[i])
         THEN high_loop(perms_lower,
                        Append(risk_factors,
                               HighFactorPrefix \o high_risk_patterns[i]),
                        i + 1)
         ELSE high_loop(perms_lower, risk_factors, i + 1)

\* mutant: the medium loop pushes a factor for every matching pattern
medium_push_every_match(perms_lower, risk_factors, pattern) ==
    any_contains(perms_lower, pattern)

\* the guard of the push in the medium loop
medium_push(perms_lower, risk_factors, pattern) ==
    any_contains(perms_lower, pattern) /\ risk_factors = << >>

\* for pattern in medium_risk_patterns { if any && is_empty { push(..) } }
RECURSIVE medium_loop(_, _, _)
medium_loop(perms_lower, risk_factors, i) ==
    IF i > Len(medium_risk_patterns) THEN risk_factors
    ELSE IF medium_push(perms_lower, risk_factors, medium_risk_patterns[i])
         THEN medium_loop(perms_lower,
                          Append(risk_factors,
                                 MediumFactorPrefix \o medium_risk_patterns[i]),
                          i + 1)
         ELSE medium_loop(perms_lower, risk_factors, i + 1)

\* mutant: the test for "some factor" is inverted, so no factor gives medium
risk_level_of_inverted_empty(risk_factors, is_first_party) ==
    IF \E k \in 1..Len(risk_factors) : contains(risk_factors[k], <<"h","i","g","h","-","r","i","s","k">>)
    THEN (IF is_first_party THEN "medium" ELSE "high")
    ELSE IF risk_factors = << >> THEN "medium"
    ELSE "low"

\* the if / else-if / else that picks the level
risk_level_of(risk_factors, is_first_party) ==
    IF \E k \in 1..Len(risk_factors) : contains(risk_factors[k], <<"h","i","g","h","-","r","i","s","k">>)
    THEN (IF is_first_party THEN "medium" ELSE "high")
    ELSE IF risk_factors # << >> THEN "medium"
    ELSE "low"

calculate_risk_level(permissions, is_first_party) ==
    LET perms_lower == [k \in 1..Len(permissions) |-> to_lowercase(permissions[k])]
        risk_factors == medium_loop(perms_lower,
                                    high_loop(perms_lower, << >>, 1), 1)
    IN  [risk_level |-> risk_level_of(risk_factors, is_first_party),
         risk_factors |-> risk_factors]

(***************************************************************************)
(* Data carried by the adapters.  Option<T> is << >> for None and << x >>  *)
(* for Some(x); a formatted string is the sequence of its pieces.          *)
(***************************************************************************)
None == << >>
Some(x) == << x >>

\* the accounts table rows read by scan_account (id, platform, access_token)
Accounts ==
    { [id |-> << "acc-gh" >>, platform |-> "github",    access_token |-> "tok-gh"],
      [id |-> << "acc-go" >>, platform |-> "google",    access_token |-> "tok-go"],
      [id |-> << "acc-ms" >>, platform |-> "microsoft", access_token |-> "tok-ms"],
      [id |-> << "acc-yh" >>, platform |-> "yahoo",     access_token |-> "tok-yh"] }

\* account ids a caller may pass to scan_account; the last has no row
AccountIds == { a.id : a \in Accounts } \cup { << "acc-none" >> }

\* GET /applications/grants items (GitHubGrant)
GrantUniverse ==
    { [id |-> 101, app_name |-> "ci-bot",   app_url |-> Some(<< "https://ci.example" >>),
       scopes |-> << <<"r","e","p","o">> >>, created_at |-> "2024-01-01T00:00:00Z"],
      [id |-> 102, app_name |-> "profiler", app_url |-> None,
       scopes |-> << <<"r","e","a","d",":","u","s","e","r">> >>, created_at |-> "2024-02-01T00:00:00Z"],
      [id |-> 103, app_name |-> "mailer",   app_url |-> None,
       scopes |-> << <<"u","s","e","r",":","e","m","a","i","l">> >>, created_at |-> "2024-03-01T00:00:00Z"] }

\* GET /user/installations items (GitHubInstallation).  permissions is a
\* HashMap: its entries are listed here in the order one iteration yields
\* them, and installation 8 appears once per possible order.
InstallationUniverse ==
    { [id |-> 7, app_slug |-> "deploy-app",
       permissions |-> << [k |-> <<"c","o","n","t","e","n","t","s">>, v |-> <<"w","r","i","t","e">>] >>,
       created_at |-> "2024-04-01T00:00:00Z"],
      [id |-> 8, app_slug |-> "org-admin",
       permissions |-> << [k |-> <<"a","d","m","i","n","i","s","t","r","a","t","i","o","n">>, v |-> <<"w","r","i","t","e">>],
                          [k |-> <<"m","e","t","a","d","a","t","a">>, v |-> <<"r","e","a","d">>] >>,
       created_at |-> "2024-05-01T00:00:00Z"],
      [id |-> 8, app_slug |-> "org-admin",
       permissions |-> << [k |-> <<"m","e","t","a","d","a","t","a">>, v |-> <<"r","e","a","d">>],
                          [k |-> <<"a","d","m","i","n","i","s","t","r","a","t","i","o","n">>, v |-> <<"w","r","i","t","e">>] >>,
       created_at |-> "2024-05-01T00:00:00Z"] }

\* lists of at most n items of U in ascending id order, each id once
IdOrderedLists(U, n) ==
    { l \in UNION { [1..k -> U] : k \in 0..n } :
        \A i \in 1..Len(l) : \A j \in 1..Len(l) : i < j => l[i].id < l[j].id }

\* What one HTTP sub-request of a scan can come to: send() fails, the
\* status is not a success, the body does not deserialize, or it does.
FailedResponses ==
    { [kind |-> "transport_error"], [kind |-> "http_error"], [kind |-> "bad_body"] }
Unused == [kind |-> "unused"]

GrantsResponses ==
    FailedResponses \cup { [kind |-> "ok", items |-> l] : l \in IdOrderedLists(GrantUniverse, MaxGrants) }
InstallationsResponses ==
    FailedResponses \cup
    { [kind |-> "ok", items |-> l] : l \in IdOrderedLists(InstallationUniverse, MaxInstallations) }
\* tokeninfo (Google) and /me (Microsoft): the body is never read
ProbeResponses ==
    { [kind |-> "transport_error"], [kind |-> "http_error"], [kind |-> "bad_body"],
      [kind |-> "ok", items |-> << >>] }

\* reqwest: send() is Ok for every HTTP status
send_is_ok(resp) == resp.kind # "transport_error"
\* send() Ok, status success, body deserialized
body_of(resp) == IF resp.kind = "ok" THEN resp.items ELSE << >>

(***************************************************************************)
(* platforms/github.rs, scan_apps                                          *)
(***************************************************************************)
\* .map(|(k, v)| format!("{}:{}", k, v)).collect()
installation_permissions(installation) ==
    [i \in 1..Len(installation.permissions) |->
        installation.permissions[i].k \o << ":" >> \o installation.permissions[i].v]

grant_app(grant) ==
    LET r == calculate_risk_level(grant.scopes, FALSE)
    IN  [app_id |-> << ToString(grant.id) >>,
         name |-> grant.app_name,
         publisher |-> None,
         description |-> None,
         homepage_url |-> grant.app_url,
         icon_url |-> None,
         permissions |-> grant.scopes,
         consent_type |-> Some("oauth"),
         consented_at |-> Some(grant.created_at),
         risk_level |-> r.risk_level,
         risk_factors |-> r.risk_factors,
         is_first_party |-> FALSE]

installation_app(installation) ==
    LET permissions == installation_permissions(installation)
        r == calculate_risk_level(permissions, FALSE)
    IN  [app_id |-> << "installation-", ToString(installation.id) >>,
         name |-> installation.app_slug,
         publisher |-> None,
         description |-> Some(<< "GitHub App: ", installation.app_slug >>),
         homepage_url |-> Some(<< "https://github.com/apps/", installation.app_slug >>),
         icon_url |-> None,
         permissions |-> permissions,
         consent_type |-> Some("github_app"),
         consented_at |-> Some(installation.created_at),
         risk_level |-> r.risk_level,
         risk_factors |-> r.risk_factors,
         is_first_party |-> FALSE]

github_fallback ==
    [app_id |-> << "github-settings-page" >>,
     name |-> "View all apps at GitHub",
     publisher |-> Some("GitHub"),
     description |-> Some(<< "Click to view your authorized apps on GitHub settings." >>),
     homepage_url |-> Some(<< "https://github.com/settings/applications" >>),
     icon_url |-> None,
     permissions |-> << >>,
     consent_type |-> None,
     consented_at |-> None,
     risk_level |-> "info",
     risk_factors |-> << >>,
     is_first_party |-> TRUE]

\* grant_app and installation_app tabulated over the items a response can
\* hold, so that each is computed once
GrantApps == [g \in GrantUniverse |-> grant_app(g)]
InstallationApps == [n \in InstallationUniverse |-> installation_app(n)]

\* mutant: the installations are asked for only when the grants were read
github_scan_apps_grants_first(grants_response, installations_response) ==
    LET grants == body_of(grants_response)
        installations == IF grants_response.kind = "ok"
                         THEN body_of(installations_response) ELSE << >>
        found == [i \in 1..Len(grants) |-> GrantApps[grants[i]]]
                 \o [i \in 1..Len(installations) |-> InstallationApps[installations[i]]]
    IN  IF found = << >> THEN << github_fallback >> ELSE found

\* mutant: an empty result is returned as it is
github_scan_apps_no_fallback(grants_response, installations_response) ==
    LET grants == body_of(grants_response)
        installations == body_of(installations_response)
    IN  [i \in 1..Len(grants) |-> GrantApps[grants[i]]]
        \o [i \in 1..Len(installations) |-> InstallationApps[installations[i]]]

github_scan_apps(grants_response, installations_response) ==
    LET grants == body_of(grants_response)
        installations == body_of(installations_response)
        found == [i \in 1..Len(grants) |-> GrantApps[grants[i]]]
                 \o [i \in 1..Len(installations) |-> InstallationApps[installations[i]]]
    IN  IF found = << >> THEN << github_fallback >> ELSE found

(***************************************************************************)
(* platforms/google.rs, scan_apps                                          *)
(***************************************************************************)
google_permissions_page ==
    [app_id |-> << "google-permissions-page" >>,
        name |-> "View all apps at Google",
        publisher |-> Some("Google"),
        description |-> Some(<< "Google doesn't provide an API to list third-party apps. Click to view your connected apps directly on Google." >>),
        homepage_url |-> Some(<< "https://myaccount.google.com/permissions" >>),
        icon_url |-> None,
        permissions |-> << >>,
        consent_type |-> None,
        consented_at |-> None,
        risk_level |-> "info",
        risk_factors |-> << <<"M","a","n","u","a","l"," ","r","e","v","i","e","w"," ","r","e","q","u","i","r","e","d">> >>,
        is_first_party |-> TRUE]

\* mutant: the entry is returned only when tokeninfo accepted the token
google_scan_apps_token_checked(token_response) ==
    IF token_response.kind = "ok" THEN << google_permissions_page >> ELSE << >>

google_scan_apps(token_response) == << google_permissions_page >>

(***************************************************************************)
(* platforms/microsoft.rs, scan_apps                                       *)
(***************************************************************************)
microsoft_SCOPES ==
    << <<"o","p","e","n","i","d">>, <<"e","m","a","i","l">>, <<"p","r","o","f","i","l","e">>, <<"o","f","f","l","i","n","e","_","a","c","c","e","s","s">>, <<"U","s","e","r",".","R","e","a","d">> >>

microsoft_this_app ==
    [app_id |-> << "complens-scanner" >>,
     name |-> "Complens (this app)",
     publisher |-> Some("Complens"),
     description |-> Some(<< "This is the Complens app you're using to scan." >>),
     homepage_url |-> Some(<< "https://complens.ai" >>),
     icon_url |-> None,
     permissions |-> microsoft_SCOPES,
     consent_type |-> Some("user"),
     consented_at |-> None,
     risk_level |-> "low",
     risk_factors |-> << >>,
     is_first_party |-> FALSE]

microsoft_fallback ==
    [app_id |-> << "microsoft-consent-page" >>,
     name |-> "View all apps at Microsoft",
     publisher |-> Some("Microsoft"),
     description |-> Some(<< "Microsoft personal accounts require manual review. Click to view your connected apps directly on Microsoft." >>),
     homepage_url |-> Some(<< "https://account.live.com/consent/Manage" >>),
     icon_url |-> None,
     permissions |-> << >>,
     consent_type |-> None,
     consented_at |-> None,
     risk_level |-> "info",
     risk_factors |-> << <<"M","a","n","u","a","l"," ","r","e","v","i","e","w"," ","r","e","q","u","i","r","e","d">> >>,
     is_first_party |-> TRUE]

microsoft_scan_apps(me_response) ==
    (IF send_is_ok(me_response) THEN << microsoft_this_app >> ELSE << >>)
    \o << microsoft_fallback >>

(***************************************************************************)
(* platforms/mod.rs: PlatformError and the registry's dispatch             *)
(***************************************************************************)
\* PlatformError: the four variants of the enum
HttpError(e) == [variant |-> "HttpError", arg |-> e]
OAuthError(s) == [variant |-> "OAuthError", arg |-> s]
UnsupportedPlatform(s) == [variant |-> "UnsupportedPlatform", arg |-> s]
ApiError(s) == [variant |-> "ApiError", arg |-> s]

\* #[error("...: {0}")]: the Display text of a PlatformError
error_to_string(e) ==
    CASE e.variant = "HttpError"           -> << "HTTP request failed: ", e.arg >>
      [] e.variant = "OAuthError"          -> << "OAuth error: ", e.arg >>
      [] e.variant = "UnsupportedPlatform" -> << "Platform not supported: ", e.arg >>
      [] e.variant = "ApiError"            -> << "API error: ", e.arg >>

NoAdapter == "none"

\* mutant: an identifier outside the closed set falls through to Google
registry_adapter_default_google(platform) ==
    CASE platform = "microsoft" -> "MicrosoftPlatform"
      [] platform = "github"    -> "GitHubPlatform"
      [] OTHER                  -> "GooglePlatform"

\* match platform { ... }: the adapter an arm constructs, if any
registry_adapter(platform) ==
    CASE platform = "google"    -> "GooglePlatform"
      [] platform = "microsoft" -> "MicrosoftPlatform"
      [] platform = "github"    -> "GitHubPlatform"
      [] OTHER                  -> NoAdapter

\* pub async fn scan(platform, access_token); adapter is the adapter whose
\* scan_apps was called
scan(platform, n) ==
    LET adapter == registry_adapter(platform)
    IN  CASE adapter = "GooglePlatform" ->
                [kind |-> "ok", adapter |-> adapter, apps |-> google_scan_apps(n.tokeninfo)]
          [] adapter = "MicrosoftPlatform" ->
                [kind |-> "ok", adapter |-> adapter, apps |-> microsoft_scan_apps(n.me)]
          [] adapter = "GitHubPlatform" ->
                [kind |-> "ok", adapter |-> adapter,
                 apps |-> github_scan_apps(n.grants, n.installations)]
          [] OTHER ->
                [kind |-> "err", adapter |-> NoAdapter, error |-> UnsupportedPlatform(platform)]

\* platforms::scan(&platform, &access_token).await.map_err(|e| e.to_string())
platforms_scan(platform, n) ==
    LET res == scan(platform, n)
    IN  IF res.kind = "ok" THEN [kind |-> "ok", apps |-> res.apps]
        ELSE [kind |-> "err", error |-> error_to_string(res.error)]

\* the provider responses a scan of `platform` can meet
NetFor(platform) ==
    CASE platform = "google" ->
            { [grants |-> Unused, installations |-> Unused, tokeninfo |-> r, me |-> Unused] :
                r \in ProbeResponses }
      [] platform = "microsoft" ->
            { [grants |-> Unused, installations |-> Unused, tokeninfo |-> Unused, me |-> r] :
                r \in ProbeResponses }
      [] platform = "github" ->
            { [grants |-> g, installations |-> i, tokeninfo |-> Unused, me |-> Unused] :
                g \in GrantsResponses, i \in InstallationsResponses }
      [] OTHER ->
            { [grants |-> Unused, installations |-> Unused, tokeninfo |-> Unused, me |-> Unused] }

NoNet == [grants |-> Unused, installations |-> Unused, tokeninfo |-> Unused, me |-> Unused]

(***************************************************************************)
(* commands.rs, scan_account                                               *)
(***************************************************************************)
\* serde_json::to_string(&Vec<String>): the stored JSON text of a list
to_json(list) == [json |-> list]

\* format!("{}:{}", account_id, app.app_id)
row_id(account_id, app_id) == account_id \o << ":" >> \o app_id

app_row(account_id, app, now) ==
    [id |-> row_id(account_id, app.app_id),
     account_id |-> account_id,
     app_id |-> app.app_id,
     name |-> app.name,
     publisher |-> app.publisher,
     description |-> app.description,
     homepage_url |-> app.homepage_url,
     icon_url |-> app.icon_url,
     permissions |-> to_json(app.permissions),
     consent_type |-> app.consent_type,
     consented_at |-> app.consented_at,
     risk_level |-> app.risk_level,
     risk_factors |-> to_json(app.risk_factors),
     is_first_party |-> app.is_first_party,
     discovered_at |-> now,
     last_seen_at |-> now,
     is_revoked |-> 0]

\* mutant: an upsert that keeps the is_revoked flag of the row it replaces
insert_keeping_revoked(table, row) ==
    LET old == { r \in table : r.id = row.id
                               \/ (r.account_id = row.account_id /\ r.app_id = row.app_id) }
    IN  (table \ old)
        \cup { IF \E r \in old : r.is_revoked = 1 THEN [row EXCEPT !.is_revoked = 1] ELSE row }

\* mutant: a plain INSERT into a table without key or uniqueness constraint
insert_plain(table, row) == table \cup { row }

\* INSERT OR REPLACE: rows that clash on the primary key (id) or on
\* UNIQUE(account_id, app_id) are deleted, then the row is inserted
insert_or_replace(table, row) ==
    { r \in table : ~ (r.id = row.id
                       \/ (r.account_id = row.account_id /\ r.app_id = row.app_id)) }
    \cup { row }

\* for app in &apps { conn.execute(INSERT OR REPLACE ...) }
RECURSIVE store_apps(_, _, _, _, _)
store_apps(table, account_id, found, now, i) ==
    IF i > Len(found) THEN table
    ELSE store_apps(insert_or_replace(table, app_row(account_id, found[i], now)),
                    account_id, found, now, i + 1)

\* the three filters of the summary
is_high(a) == a.risk_level = "high" \/ a.risk_level = "critical"
is_low(a) == a.risk_level = "low"

\* mutant: the medium bucket takes every app that is neither high nor low
count_medium_as_rest(found) ==
    Cardinality({ i \in 1..Len(found) : ~ is_high(found[i]) /\ ~ is_low(found[i]) })

\* apps.iter().filter(..).count()
count_high(found) == Cardinality({ i \in 1..Len(found) : is_high(found[i]) })
count_medium(found) == Cardinality({ i \in 1..Len(found) : found[i].risk_level = "medium" })
count_low(found) == Cardinality({ i \in 1..Len(found) : is_low(found[i]) })

scan_summary(account_id, found) ==
    [kind |-> "ok",
     account_id |-> account_id,
     apps_found |-> Len(found),
     high_risk_count |-> count_high(found),
     medium_risk_count |-> count_medium(found),
     low_risk_count |-> count_low(found)]

(***************************************************************************)
(* The classifier called on its own: the initial state holds any list of   *)
(* at most MaxPerms permissions of PermUniverse and either flag.           *)
(***************************************************************************)
PermUniverse ==
    { <<"r","e","p","o">>,
      <<"r","e","a","d",":","u","s","e","r">>,
      <<"c","o","n","t","e","n","t","s",":","w","r","i","t","e">>,
      <<"M","a","i","l",".","S","e","n","d">>,
      <<"U","s","e","r",".","R","e","a","d">>,
      <<"p","r","o","f","i","l","e">>,
      <<"c","o","n","t","a","c","t","s">>,
      <<"o","p","e","n","i","d">>,
      <<"F","i","l","e","s",".","R","e","a","d","W","r","i","t","e",".","A","l","l">>,
      <<"d","r","i","v","e",".","r","e","a","d","o","n","l","y">>,
      <<"<U+00C4>","D","M","I","N">> }

PermLists == UNION { [1..k -> PermUniverse] : k \in 0..MaxPerms }

Classify ==
    /\ c_out = NoResult
    /\ c_out' = [kind |-> "ok"] @@ calculate_risk_level(c_perms, c_first_party)
    /\ UNCHANGED << c_perms, c_first_party, svars, lvars, avars, tvars >>

(***************************************************************************)
(* oauth.rs, wait_for_callback: parsing of the request that was read.      *)
(***************************************************************************)
\* the characters with Unicode's White_Space property (PropList.txt)
WhiteSpace ==
    { char_of(cp) : cp \in (9..13) \cup { 32, 133, 160, 5760 } \cup (8192..8202)
                           \cup { 8232, 8233, 8239, 8287, 12288 } }

\* char::is_whitespace
is_whitespace(ch) == ch \in WhiteSpace

\* position of the first element of s at or after i that is in set, or Len(s) + 1
RECURSIVE find_from(_, _, _)
find_from(s, i, set) ==
    IF i > Len(s) \/ s[i] \in set THEN i ELSE find_from(s, i + 1, set)

\* request.lines().next().unwrap_or("")
first_line(request) ==
    LET nl == find_from(request, 1, { "\n" })
        line == SubSeq(request, 1, nl - 1)
    IN  IF nl <= Len(request) /\ line # << >> /\ line[Len(line)] = "\r"
        THEN SubSeq(line, 1, Len(line) - 1)
        ELSE line

RECURSIVE skip_whitespace(_, _)
skip_whitespace(s, i) ==
    IF i > Len(s) \/ ~ is_whitespace(s[i]) THEN i ELSE skip_whitespace(s, i + 1)

\* first_line.split_whitespace().nth(1).unwrap_or("")
second_token(line) ==
    LET a == skip_whitespace(line, 1)
        b == find_from(line, a, WhiteSpace)
        c == skip_whitespace(line, b)
        d == find_from(line, c, WhiteSpace)
    IN  SubSeq(line, c, d - 1)

CallbackPrefix == <<"/","c","a","l","l","b","a","c","k","/">>
UnknownPlatform == <<"u","n","k","n","o","w","n">>

\* path.strip_prefix("/callback/").and_then(|p| p.split('?').next())
\*     .unwrap_or("unknown")
extract_platform(path) ==
    IF starts_with(path, CallbackPrefix)
    THEN LET rest == SubSeq(path, Len(CallbackPrefix) + 1, Len(path))
         IN  SubSeq(rest, 1, find_from(rest, 1, { "?" }) - 1)
    ELSE UnknownPlatform

LowerHexDigits == << "0", "1", "2", "3", "4", "5", "6", "7", "8", "9",
                     "a", "b", "c", "d", "e", "f" >>
is_hex(ch) == \E k \in 1..16 : HexDigits[k] = ch \/ LowerHexDigits[k] = ch
hex_value(ch) ==
    (CHOOSE k \in 1..16 : HexDigits[k] = ch \/ LowerHexDigits[k] = ch) - 1

\* the character of a byte below 128
byte_char(b) == IF b < 128 THEN char_of(b) ELSE ReplacementChar

\* char::encode_utf8: the bytes of the code point cp
encode_utf8(cp) ==
    IF cp < 128 THEN << cp >>
    ELSE IF cp < 2048 THEN << 192 + cp \div 64, 128 + (cp % 64) >>
    ELSE IF cp < 65536
         THEN << 224 + cp \div 4096, 128 + ((cp \div 64) % 64), 128 + (cp % 64) >>
    ELSE << 240 + cp \div 262144, 128 + ((cp \div 4096) % 64), 128 + ((cp \div 64) % 64),
            128 + (cp % 64) >>

\* percent_encoding::percent_decode over the UTF-8 bytes of s: %XX is the
\* byte XX and, where plus holds (form_urlencoded), '+' is a space
RECURSIVE percent_decode(_, _, _)
percent_decode(s, i, plus) ==
    IF i > Len(s) THEN << >>
    ELSE IF plus /\ s[i] = "+"
         THEN << 32 >> \o percent_decode(s, i + 1, plus)
    ELSE IF s[i] = "%" /\ i + 2 <= Len(s) /\ is_hex(s[i + 1]) /\ is_hex(s[i + 2])
         THEN << 16 * hex_value(s[i + 1]) + hex_value(s[i + 2]) >>
              \o percent_decode(s, i + 3, plus)
    ELSE encode_utf8(code_point(s[i])) \o percent_decode(s, i + 1, plus)

\* the byte at j continues a UTF-8 sequence
is_continuation(bytes, j) ==
    j <= Len(bytes) /\ bytes[j] >= 128 /\ bytes[j] <= 191

\* the byte at j may follow the leading byte b1
second_byte_ok(b1, bytes, j) ==
    /\ j <= Len(bytes)
    /\ CASE b1 = 224 -> bytes[j] >= 160 /\ bytes[j] <= 191
         [] b1 = 237 -> bytes[j] >= 128 /\ bytes[j] <= 159
         [] b1 = 240 -> bytes[j] >= 144 /\ bytes[j] <= 191
         [] b1 = 244 -> bytes[j] >= 128 /\ bytes[j] <= 143
         [] OTHER    -> bytes[j] >= 128 /\ bytes[j] <= 191

\* core::str::utf8_char_width
utf8_char_width(b) ==
    IF b < 128 THEN 1
    ELSE IF b >= 194 /\ b <= 223 THEN 2
    ELSE IF b >= 224 /\ b <= 239 THEN 3
    ELSE IF b >= 240 /\ b <= 244 THEN 4
    ELSE 0

\* Utf8Chunks: every well-formed sequence is its character, every maximal
\* ill-formed run of a sequence is one U+FFFD
RECURSIVE utf8_chunks(_, _)
utf8_chunks(bytes, i) ==
    IF i > Len(bytes) THEN << >>
    ELSE LET b == bytes[i]
             w == utf8_char_width(b)
         IN  IF w = 1 THEN << byte_char(b) >> \o utf8_chunks(bytes, i + 1)
             ELSE IF w = 0 \/ ~ second_byte_ok(b, bytes, i + 1)
                  THEN << ReplacementChar >> \o utf8_chunks(bytes, i + 1)
             ELSE IF w = 2
                  THEN << char_of((b - 192) * 64 + (bytes[i + 1] - 128)) >>
                       \o utf8_chunks(bytes, i + 2)
             ELSE IF ~ is_continuation(bytes, i + 2)
                  THEN << ReplacementChar >> \o utf8_chunks(bytes, i + 2)
             ELSE IF w = 3
                  THEN << char_of((b - 224) * 4096 + (bytes[i + 1] - 128) * 64
                                  + (bytes[i + 2] - 128)) >>
                       \o utf8_chunks(bytes, i + 3)
             ELSE IF ~ is_continuation(bytes, i + 3)
                  THEN << ReplacementChar >> \o utf8_chunks(bytes, i + 3)
             ELSE << char_of((b - 240) * 262144 + (bytes[i + 1] - 128) * 4096
                             + (bytes[i + 2] - 128) * 64 + (bytes[i + 3] - 128)) >>
                  \o utf8_chunks(bytes, i + 4)

\* String::from_utf8_lossy of the bytes from i on: bytes that are text
\* already are returned as they are
from_utf8_lossy(bytes, i) ==
    IF \A k \in i..Len(bytes) : bytes[k] < 128
    THEN SubSeq([k \in DOMAIN bytes |-> byte_char(bytes[k])], i, Len(bytes))
    ELSE utf8_chunks(bytes, i)

\* form_urlencoded decoding of one name or value, from position i
form_decode(s, i) == from_utf8_lossy(percent_decode(s, i, TRUE), 1)

RECURSIVE split(_, _, _)
split(s, i, sep) ==
    LET j == find_from(s, i, { sep })
    IN  IF j > Len(s) THEN << SubSeq(s, i, Len(s)) >>
        ELSE << SubSeq(s, i, j - 1) >> \o split(s, j + 1, sep)

\* url::Host, parse_ipv4number: the number a part of a dotted host spells
\* in radix 16 (0x), 8 (leading 0) or 10, kept as hi * 65536 + lo
RECURSIVE from_str_radix(_, _, _, _, _)
from_str_radix(digits, i, radix, hi, lo) ==
    IF i > Len(digits) THEN [kind |-> "ok", hi |-> hi, lo |-> lo]
    ELSE LET l == lo * radix + hex_value(digits[i])
             h == hi * radix + (l \div 65536)
         IN  IF h >= 65536 THEN [kind |-> "overflow"]
             ELSE from_str_radix(digits, i + 1, radix, h, l % 65536)

parse_ipv4number(part) ==
    LET hex == Len(part) >= 2 /\ part[1] = "0" /\ part[2] \in { "x", "X" }
        octal == ~ hex /\ Len(part) >= 2 /\ part[1] = "0"
        radix == IF hex THEN 16 ELSE IF octal THEN 8 ELSE 10
        digits == IF hex THEN SubSeq(part, 3, Len(part))
                  ELSE IF octal THEN SubSeq(part, 2, Len(part))
                  ELSE part
    IN  IF part = << >> THEN [kind |-> "err"]
        ELSE IF \E k \in 1..Len(digits) : ~ is_hex(digits[k]) \/ hex_value(digits[k]) >= radix
             THEN [kind |-> "err"]
        ELSE from_str_radix(digits, 1, radix, 0, 0)

\* url::Host, ends_in_a_number
ends_in_a_number(domain) ==
    LET parts == split(domain, 1, ".")
        n == Len(parts)
        last == IF parts[n] = << >> /\ n >= 2 THEN parts[n - 1] ELSE parts[n]
    IN  /\ ~ (parts[n] = << >> /\ n < 2)
        /\ \/ last # << >> /\ \A k \in 1..Len(last) : last[k] \in Digits
           \/ parse_ipv4number(last).kind # "err"

\* url::Host, parse_ipv4addr succeeds
parse_ipv4addr(domain) ==
    LET all == split(domain, 1, ".")
        parts == IF all[Len(all)] = << >> THEN SubSeq(all, 1, Len(all) - 1) ELSE all
        n == Len(parts)
        numbers == [k \in 1..n |-> parse_ipv4number(parts[k])]
    IN  /\ n <= 4
        /\ \A k \in 1..n : numbers[k].kind = "ok"
        /\ \A k \in 1..(n - 1) : numbers[k].hi = 0 /\ numbers[k].lo <= 255
        /\ n >= 1 =>
             CASE n = 1 -> TRUE
               [] n = 2 -> numbers[n].hi < 256
               [] n = 3 -> numbers[n].hi = 0
               [] OTHER -> numbers[n].hi = 0 /\ numbers[n].lo <= 255

\* a part of the IPv4 tail of an IPv6 address: decimal, at most 255, no
\* leading zero
ipv6_ipv4_piece(part) ==
    /\ Len(part) >= 1 /\ Len(part) <= 3
    /\ \A k \in 1..Len(part) : part[k] \in Digits
    /\ Len(part) > 1 => part[1] # "0"
    /\ LET v == from_str_radix(part, 1, 10, 0, 0) IN v.kind = "ok" /\ v.hi = 0 /\ v.lo <= 255

\* url::Host, parse_ipv6addr succeeds on the text between the brackets
parse_ipv6addr(inner) ==
    LET all == split(inner, 1, ":")
        lead == starts_with(inner, << ":", ":" >>)
        trail == Len(inner) >= 2 /\ SubSeq(inner, Len(inner) - 1, Len(inner)) = << ":", ":" >>
        g1 == IF lead THEN Tail(all) ELSE all
        groups == IF trail THEN SubSeq(g1, 1, Len(g1) - 1) ELSE g1
        n == Len(groups)
        compressed == { k \in 1..n : groups[k] = << >> }
        v4 == n >= 1 /\ \E k \in 1..Len(groups[n]) : groups[n][k] = "."
        v4parts == IF v4 THEN split(groups[n], 1, ".") ELSE << >>
        pieces == (n - Cardinality(compressed)) + (IF v4 THEN 1 ELSE 0)
    IN  /\ inner # << >>
        /\ all[1] = << >> => lead
        /\ all[Len(all)] = << >> => trail
        /\ Cardinality(compressed) <= 1
        /\ \A k \in 1..n :
             \/ k \in compressed
             \/ k = n /\ v4
             \/ /\ Len(groups[k]) >= 1 /\ Len(groups[k]) <= 4
                /\ \A j \in 1..Len(groups[k]) : is_hex(groups[k][j])
        /\ v4 => Len(v4parts) = 4 /\ \A k \in 1..4 : ipv6_ipv4_piece(v4parts[k])
        /\ IF compressed = { } THEN pieces = 8 ELSE pieces <= 7

\* idna, AsciiDenyList::URL: the forbidden domain code points of the URL
\* standard
ForbiddenDomainChars ==
    { char_of(cp) : cp \in (0..32) \cup { 127 } }
    \cup { "#", "/", ":", "<", ">", "?", "@", "[", "\\", "]", "^", "|", "%" }

\* u8::to_ascii_lowercase on every byte
to_ascii_lowercase(bytes) ==
    [k \in 1..Len(bytes) |-> IF bytes[k] >= 65 /\ bytes[k] <= 90 THEN bytes[k] + 32 ELSE bytes[k]]

PunycodePrefix == << "x", "n", "-", "-" >>

\* idna::punycode (RFC 3492): the digit a character stands for, a-z for
\* 0..25 and 0-9 for 26..35
is_punycode_digit(ch) ==
    ch \in Digits \/ (Len(ch) = 1 /\ char_byte(ch) >= 97 /\ char_byte(ch) <= 122)
punycode_digit(ch) == IF ch \in Digits THEN 26 + hex_value(ch) ELSE char_byte(ch) - 97

\* a u32 as its two 16-bit halves << high, low >>, and the operations of
\* the decoder on it: u32::checked_mul and checked_add (None on overflow),
\* subtraction, division and remainder by a divisor below 2^15
u32(v) == << v \div 65536, v % 65536 >>
u32_checked_mul(a, m) ==
    IF a[1] * m + (a[2] * m) \div 65536 >= 65536 THEN None
    ELSE Some(<< a[1] * m + (a[2] * m) \div 65536, (a[2] * m) % 65536 >>)
u32_checked_add(a, b) ==
    IF a[1] + b[1] + (a[2] + b[2]) \div 65536 >= 65536 THEN None
    ELSE Some(<< a[1] + b[1] + (a[2] + b[2]) \div 65536, (a[2] + b[2]) % 65536 >>)
u32_sub(a, b) ==
    IF a[2] >= b[2] THEN << a[1] - b[1], a[2] - b[2] >>
    ELSE << a[1] - b[1] - 1, a[2] + 65536 - b[2] >>
u32_div(a, d) == << a[1] \div d, ((a[1] % d) * 65536 + a[2]) \div d >>
u32_rem(a, d) == ((a[1] % d) * 65536 + a[2]) % d
u32_gt(a, v) == a[1] > u32(v)[1] \/ (a[1] = u32(v)[1] /\ a[2] > u32(v)[2])

\* while delta > ((BASE - T_MIN) * T_MAX) / 2 { delta /= BASE - T_MIN; k += BASE }
\* k + (((BASE - T_MIN + 1) * delta) / (delta + SKEW))
RECURSIVE adapt_loop(_, _)
adapt_loop(delta, k) ==
    IF u32_gt(delta, 455) THEN adapt_loop(u32_div(delta, 35), k + 36)
    ELSE k + (36 * delta[2]) \div (delta[2] + 38)

\* punycode bias adaptation: delta /= if first_time { DAMP } else { 2 };
\* delta += delta / num_points
adapt(delta, num_points, first_time) ==
    LET damped == u32_div(delta, IF first_time THEN 700 ELSE 2)
    IN  adapt_loop(u32_checked_add(damped, u32_div(damped, num_points))[1], 0)

\* let t = if k <= bias { T_MIN } else if k >= bias + T_MAX { T_MAX } else { k - bias }
threshold(k, bias) == IF k <= bias THEN 1 ELSE IF k >= bias + 26 THEN 26 ELSE k - bias

\* one generalized variable-length integer of the encoded part, read from
\* pos on and added to i with the weight w, both u32: the digits are
\* taken until one is below its threshold; a character that is no digit,
\* the end of the input and an overflow of u32 are errors
RECURSIVE punycode_integer(_, _, _, _, _, _)
punycode_digit_added(s, pos, i, w, k, bias, sum) ==
    IF sum = None THEN [kind |-> "err"]
    ELSE IF punycode_digit(s[pos]) < threshold(k, bias)
         THEN [kind |-> "ok", i |-> sum[1], next |-> pos + 1]
    ELSE IF u32_checked_mul(w, 36 - threshold(k, bias)) = None THEN [kind |-> "err"]
    ELSE punycode_integer(s, pos + 1, sum[1],
                          u32_checked_mul(w, 36 - threshold(k, bias))[1], k + 36, bias)
punycode_integer(s, pos, i, w, k, bias) ==
    IF pos > Len(s) \/ ~ is_punycode_digit(s[pos]) THEN [kind |-> "err"]
    ELSE IF u32_checked_mul(w, punycode_digit(s[pos])) = None THEN [kind |-> "err"]
    ELSE punycode_digit_added(s, pos, i, w, k, bias,
            u32_checked_add(i, u32_checked_mul(w, punycode_digit(s[pos]))[1]))

\* char::from_u32(code_point) is a char: no surrogate, at most U+10FFFF
is_char(cp) == cp <= 1114111 /\ ~ (cp >= 55296 /\ cp <= 57343)

\* the code points after the delimiter are decoded one by one: n is the
\* code point, i the index, and `decoded` the code points of the label so
\* far, into which the code point is inserted at the index it decodes
\* to; the decoding fails on a digit that is none, on overflow and on a
\* code point that is no char.  The result is None or Some of the decoded
\* label.
RECURSIVE punycode_insertions(_, _, _, _, _, _)
punycode_step(s, n, i, bias, r, decoded) ==
    LET length == Len(decoded)
        quotient == u32_div(r.i, length + 1)
        code == n + quotient[1] * 65536 + quotient[2]
        index == u32_rem(r.i, length + 1)
    IN  IF r.kind = "err" THEN None
        ELSE IF u32_gt(quotient, 1114111) THEN None
        ELSE IF ~ is_char(code) THEN None
        ELSE punycode_insertions(s, r.next, code, index + 1,
                 adapt(u32_sub(r.i, u32(i)), length + 1, i = 0),
                 SubSeq(decoded, 1, index) \o << code >>
                     \o SubSeq(decoded, index + 1, length))
punycode_insertions(s, pos, n, i, bias, decoded) ==
    IF pos > Len(s) THEN Some(decoded)
    ELSE punycode_step(s, n, i, bias,
                       punycode_integer(s, pos, u32(i), u32(1), 36, bias), decoded)

\* the position of the last '-' of s, or 0
last_hyphen(s) ==
    IF \E k \in 1..Len(s) : s[k] = "-"
    THEN CHOOSE k \in 1..Len(s) : s[k] = "-" /\ \A j \in (k + 1)..Len(s) : s[j] # "-"
    ELSE 0

\* the delimiter that ends the basic characters: the last '-', unless it is
\* the first character, when the whole input is read as digits
basic_end(s) == IF last_hyphen(s) > 1 THEN last_hyphen(s) ELSE 0

\* idna::punycode, Decoder::decode: the label that the input decodes to,
\* as code points (the basic characters before the last delimiter, with
\* the code points that the part after it inserts), or None
punycode_decode(input) ==
    punycode_insertions(input, basic_end(input) + 1, 128, 0, 72,
        [k \in 1..(IF basic_end(input) > 0 THEN basic_end(input) - 1 ELSE 0)
            |-> code_point(input[k])])

\* idna::uts46 on a decoded label, with the back end of idna_adapter 1.0:
\* U+FFFD marks an error; a joiner U+200C or U+200D is taken after any
\* character (is_virama answers true for every character) and refused
\* as the first character of the label
decoded_label_ok(decoded) ==
    /\ \A k \in 1..Len(decoded) : decoded[k] # code_point(ReplacementChar)
    /\ decoded # << >> => decoded[1] \notin { 8204, 8205 }

\* idna::uts46: the longest Punycode that is decoded, and the longest
\* decoded label that is written back as Punycode
PunycodeDecodeMaxInputLength == 2000
PunycodeEncodeMaxInputLength == 1000

\* a label xn--<rest> is taken when rest is not too long, does not end in
\* '-' (which would leave nothing encoded), decodes, and what it decodes
\* to passes the checks and, basic and inserted characters together, is
\* not too long to be encoded again
punycode_label_ok(rest) ==
    /\ rest # << >>
    /\ rest[Len(rest)] # "-"
    /\ Len(rest) <= PunycodeDecodeMaxInputLength
    /\ punycode_decode(rest) # None
    /\ decoded_label_ok(punycode_decode(rest)[1])
    /\ Len(punycode_decode(rest)[1]) <= PunycodeEncodeMaxInputLength

\* idna::domain_to_ascii_cow without a Unicode back end (idna_adapter
\* 1.0), in a build without debug assertions: ASCII only, lower-cased, no
\* forbidden code point, and every label xn--.. well-formed Punycode
domain_to_ascii_ok(domain) ==
    /\ \A k \in 1..Len(domain) :
          /\ domain[k] \notin ForbiddenDomainChars
          /\ code_point(domain[k]) < 128
    /\ \A label \in { split(domain, 1, ".")[k] : k \in 1..Len(split(domain, 1, ".")) } :
          starts_with(label, PunycodePrefix)
              => punycode_label_ok(SubSeq(label, Len(PunycodePrefix) + 1, Len(label)))

\* the domain of a host: percent-decoded, then lower-cased
host_domain(input) ==
    from_utf8_lossy(to_ascii_lowercase(percent_decode(input, 1, FALSE)), 1)

\* the domain is taken, and is an IPv4 address if it ends in a number
domain_ok(domain) ==
    /\ domain # << >>
    /\ domain_to_ascii_ok(domain)
    /\ ends_in_a_number(domain) => parse_ipv4addr(domain)

\* url::Host::parse succeeds: a bracketed IPv6 address, or a domain
host_parse(input) ==
    IF input # << >> /\ input[1] = "["
    THEN input[Len(input)] = "]" /\ parse_ipv6addr(SubSeq(input, 2, Len(input) - 1))
    ELSE domain_ok(host_domain(input))

\* url::parser, parse_userinfo: the position of the last '@' of the
\* authority, or 0
last_at(authority) ==
    IF \E k \in 1..Len(authority) : authority[k] = "@"
    THEN CHOOSE k \in 1..Len(authority) :
            authority[k] = "@" /\ \A j \in (k + 1)..Len(authority) : authority[j] # "@"
    ELSE 0

\* url::parser, parse_host: the position of the first ':' outside square
\* brackets at or after i, or Len(s) + 1
RECURSIVE host_end(_, _, _)
host_end(s, i, inside_square_brackets) ==
    IF i > Len(s) THEN i
    ELSE IF s[i] = ":" /\ ~ inside_square_brackets THEN i
    ELSE host_end(s, i + 1, IF s[i] = "[" THEN TRUE
                            ELSE IF s[i] = "]" THEN FALSE
                            ELSE inside_square_brackets)

\* url::parser, parse_port succeeds: digits only, at most 65535
RECURSIVE parse_port(_, _, _)
parse_port(port, i, value) ==
    IF i > Len(port) THEN TRUE
    ELSE IF port[i] \notin Digits THEN FALSE
    ELSE LET v == value * 10 + hex_value(port[i])
         IN  IF v > 65535 THEN FALSE ELSE parse_port(port, i + 1, v)

\* Url::parse drops the C0 control characters and spaces at the ends of
\* its input
RECURSIVE trim_end(_)
trim_end(s) ==
    IF s # << >> /\ s[Len(s)] \in { char_of(cp) : cp \in 0..32 }
    THEN trim_end(SubSeq(s, 1, Len(s) - 1))
    ELSE s

\* the parser passes over ASCII tab, line feed and carriage return wherever
\* they stand in its input
is_tab_or_newline(ch) == ch \in { "\t", "\n", "\r" }
without_tab_or_newline(s) == SelectSeq(s, LAMBDA ch : ~ is_tab_or_newline(ch))

\* the bytes the query of a special URL spells as %XX: the C0 controls,
\* space, ", #, ', <, > and everything from 0x7F on
in_special_query_set(b) == b <= 32 \/ b >= 127 \/ b \in { 34, 35, 39, 60, 62 }

\* percent_encoding::percent_encode_byte
percent_encode_byte(b) == << "%", HexDigits[b \div 16 + 1], HexDigits[(b % 16) + 1] >>

\* url::parser, parse_query: the query as Url::query() returns it
RECURSIVE query_encode(_, _)
query_encode(bytes, i) ==
    IF i > Len(bytes) THEN << >>
    ELSE (IF in_special_query_set(bytes[i]) THEN percent_encode_byte(bytes[i])
          ELSE << byte_char(bytes[i]) >>)
         \o query_encode(bytes, i + 1)

RECURSIVE str_bytes(_, _)
str_bytes(s, i) ==
    IF i > Len(s) THEN << >> ELSE encode_utf8(code_point(s[i])) \o str_bytes(s, i + 1)

\* url::Url::parse(&format!("http://localhost{}", path)).ok(): whatever
\* precedes the first '/', '?', '#' or '\' of path extends the authority
\* "localhost": up to its last '@' it is user info, then comes the host
\* and, after a ':', the port.  The result is Some(query) with query an
\* Option, or None when parsing fails.
url_parse_query(path) ==
    LET input == without_tab_or_newline(trim_end(path))
        auth_end == find_from(input, 1, { "/", "?", "#", "\\" })
        authority == <<"l","o","c","a","l","h","o","s","t">> \o SubSeq(input, 1, auth_end - 1)
        hostport == SubSeq(authority, last_at(authority) + 1, Len(authority))
        colon == host_end(hostport, 1, FALSE)
        host == SubSeq(hostport, 1, colon - 1)
        port == SubSeq(hostport, colon + 1, Len(hostport))
        q == find_from(input, auth_end, { "?", "#" })
        q_end == find_from(input, q + 1, { "#" })
    IN  IF ~ host_parse(host) \/ ~ parse_port(port, 1, 0)
        THEN None
        ELSE IF q <= Len(input) /\ input[q] = "?"
             THEN Some(Some(query_encode(str_bytes(SubSeq(input, q + 1, q_end - 1), 1), 1)))
             ELSE Some(None)

CodeKey == <<"c","o","d","e">>

\* url.query_pairs().find(|(key, _)| key == "code").map(|(_, value)| value)
RECURSIVE find_code(_, _)
find_code(query, i) ==
    IF i > Len(query) THEN None
    ELSE LET amp == find_from(query, i, { "&" })
             piece == SubSeq(query, i, amp - 1)
             eq == find_from(piece, 1, { "=" })
             key == form_decode(SubSeq(piece, 1, eq - 1), 1)
             value == form_decode(SubSeq(piece, eq + 1, Len(piece)), 1)
         IN  IF piece # << >> /\ key = CodeKey THEN Some(value)
             ELSE find_code(query, amp + 1)

extract_code(path) ==
    LET parsed == url_parse_query(path)
    IN  IF parsed = None \/ parsed[1] = None THEN None
        ELSE find_code(parsed[1][1], 1)

(***************************************************************************)
(* The requests a browser-side connection may send.                        *)
(***************************************************************************)
RequestTail == <<" ","H","T","T","P","/","1",".","1","\r","\n","H","o","s","t",":"," ","l","o","c","a","l","h","o","s","t",":","8","7","4","2","\r","\n","\r","\n">>

\* "GET <path> HTTP/1.1" and headers
Method == <<"G","E","T"," ">>
http_get(path) == Method \o path \o RequestTail

\* the path /callback/<p>?code=<c>
callback_path(p, c) == CallbackPrefix \o p \o <<"?","c","o","d","e","=">> \o c

\* provider segments and code values of well-formed callbacks; `decoded`
\* is the authorization code that `c` transmits
CallbackCases ==
    { [request |-> "callback_plain", p |-> <<"p","r","o","v","i","d","e","r","X">>,
       c |-> <<"a","b","c","1","2","3">>,  decoded |-> <<"a","b","c","1","2","3">>],
      [request |-> "callback_encoded", p |-> <<"g","o","o","g","l","e">>,
       c |-> <<"4","%","2","F","0","A">>,  decoded |-> <<"4","/","0","A">>] }

\* other paths a request may carry
PathErrorOnly == <<"/","c","a","l","l","b","a","c","k","/","g","i","t","h","u","b","?","e","r","r","o","r","=","a","c","c","e","s","s","_","d","e","n","i","e","d">>
PathNoQuery == <<"/","c","a","l","l","b","a","c","k","/","g","i","t","h","u","b">>
PathCodesOnly == <<"/","c","a","l","l","b","a","c","k","/","g","i","t","h","u","b","?","c","o","d","e","s","=","1">>
PathOtherPrefix == <<"/","o","t","h","e","r","?","c","o","d","e","=","z","z","z">>
PathBadUrl == <<":","x","?","c","o","d","e","=","1">>
PathBareCode == <<"/","?","c","o","d","e","=","1">>
PathJoinerHost == <<".","x","n","-","-","a","-","u","g","n","/","?","c","o","d","e","=","1">>
PathCodeSecond == <<"/","c","a","l","l","b","a","c","k","/","y","a","h","o","o","?","s","t","a","t","e","=","s","1","&","c","o","d","e","=","c","1">>

\* a request that is a method and nothing else
RequestNoPath == <<"G","E","T">>

\* let buffer = vec![0u8; 4096]
BufferSize == 4096

\* a request whose headers do not fit the buffer
PathShort == <<"/","c","a","l","l","b","a","c","k","/","g","i","t","h","u","b","?","c","o","d","e","=","g","h","1">>
RequestLongHeaders ==
    Method \o PathShort
    \o <<" ","H","T","T","P","/","1",".","1","\r","\n","C","o","o","k","i","e",":"," ">>
    \o [k \in 1..BufferSize |-> "a"] \o <<"\r","\n","\r","\n">>

\* the bytes of an ASCII text, one byte each
as_bytes(s) == SubSeq([k \in 1..Len(s) |-> code_point(s[k])], 1, Len(s))

\* the requests a connection may send, by name, as bytes
RequestTable ==
    [callback_plain   |-> as_bytes(http_get(callback_path(
                              <<"p","r","o","v","i","d","e","r","X">>,
                              <<"a","b","c","1","2","3">>))),
     callback_encoded |-> as_bytes(http_get(callback_path(
                              <<"g","o","o","g","l","e">>, <<"4","%","2","F","0","A">>))),
     error_only       |-> as_bytes(http_get(PathErrorOnly)),
     no_query         |-> as_bytes(http_get(PathNoQuery)),
     codes_only       |-> as_bytes(http_get(PathCodesOnly)),
     other_prefix     |-> as_bytes(http_get(PathOtherPrefix)),
     bad_url          |-> as_bytes(http_get(PathBadUrl)),
     code_second      |-> as_bytes(http_get(PathCodeSecond)),
     no_path          |-> as_bytes(RequestNoPath),
     nothing          |-> << >>,
     bare_code        |-> as_bytes(Method \o PathBareCode),
     joiner_host      |-> as_bytes(Method \o PathJoinerHost),
     long_headers     |-> as_bytes(RequestLongHeaders)]
Requests == DOMAIN RequestTable

\* how much of a request may have arrived when the listener reads: its
\* first segment, which ends anywhere in the request, or nothing when the
\* connection is closed without a request
arrivals(request) ==
    IF RequestTable[request] = << >> THEN { 0 }
    ELSE 1..Len(RequestTable[request])

min(a, b) == IF a <= b THEN a ELSE b

\* String::from_utf8_lossy(&buffer[..n])
read_text(bytes, n) ==
    from_utf8_lossy(SubSeq(bytes, 1, n), 1)

(***************************************************************************)
(* oauth.rs, wait_for_callback: one invocation per element of Invocations, *)
(* all on the same port; Clients are the connections browsers attempt.     *)
(***************************************************************************)
Invocations == 1..MaxInvocations
Clients == 1..MaxClients

\* a connection: the request its browser sends, how much of it the
\* listener has read, and whether it was accepted
NewClient ==
    [state |-> "new", request |-> "nothing", read |-> 0, response |-> "none",
     accepted |-> FALSE]

\* how the browser sees the stream dropped: an orderly close when the
\* listener has read all that reached it, a reset when bytes of the request
\* reached it that it did not read, which only a request read to its end
\* rules out
drop_states(c) ==
    { "closed" } \cup IF c.read < Len(RequestTable[c.request]) THEN { "reset" } ELSE { }

\* the stream an invocation holds, if it holds one, is dropped
dropped(i, cl, state) ==
    [c \in Clients |-> IF c = l_stream[i] THEN [cl[c] EXCEPT !.state = state] ELSE cl[c]]
stream_drop_states(i, cl) ==
    IF l_stream[i] = 0 THEN { "closed" } ELSE drop_states(cl[l_stream[i]])

\* Invocations, and clients, differ only by their number: they are taken
\* in ascending order, which leaves out nothing but renamings
started_in_order(i) == \A j \in Invocations : j < i => l_pc[j] # "idle"
connected_in_order(c) == \A d \in Clients : d < c => client[d].state # "new"

Ok(platform, code) == [kind |-> "ok", platform |-> platform, code |-> code]
Err(message) == [kind |-> "err", error |-> message]

NoCodeError == "No authorization code in callback"

\* mutant: the listener outlives the call, so the port stays bound
ReturnKeepsPort(i, result, cl) ==
    /\ l_out' = [l_out EXCEPT ![i] = result]
    /\ l_pc' = [l_pc EXCEPT ![i] = "done"]
    /\ UNCHANGED << port_owner, backlog >>
    /\ \E state \in stream_drop_states(i, cl) : client' = dropped(i, cl, state)

\* the function returns: listener and stream are dropped, so the port is
\* free again and every connection still in the backlog is reset
Return(i, result, cl) ==
    /\ l_out' = [l_out EXCEPT ![i] = result]
    /\ l_pc' = [l_pc EXCEPT ![i] = "done"]
    /\ port_owner' = IF port_owner = i THEN 0 ELSE port_owner
    /\ backlog' = IF port_owner = i THEN << >> ELSE backlog
    /\ \E state \in stream_drop_states(i, cl) :
         client' = [c \in Clients |->
                      IF port_owner = i /\ \E k \in 1..Len(backlog) : backlog[k] = c
                      THEN [cl[c] EXCEPT !.state = "reset"]
                      ELSE dropped(i, cl, state)[c]]

\* mutant: bind succeeds whether or not the port is taken
BindOkShared(i) ==
    /\ l_pc[i] = "idle"
    /\ started_in_order(i)
    /\ port_owner' = i
    /\ l_pc' = [l_pc EXCEPT ![i] = "listening"]
    /\ UNCHANGED << l_stream, l_read, l_accepts, l_parsed, l_write, l_out, backlog, client >>

\* TcpListener::bind succeeds: the port was free
BindOk(i) ==
    /\ l_pc[i] = "idle"
    /\ started_in_order(i)
    /\ port_owner = 0
    /\ port_owner' = i
    /\ l_pc' = [l_pc EXCEPT ![i] = "listening"]
    /\ UNCHANGED << l_stream, l_read, l_accepts, l_parsed, l_write, l_out, backlog, client >>

\* TcpListener::bind fails: the port is in use
BindFail(i) ==
    /\ l_pc[i] = "idle"
    /\ started_in_order(i)
    /\ port_owner # 0
    /\ Return(i, Err("bind: address in use"), client)
    /\ UNCHANGED << l_stream, l_read, l_accepts, l_parsed, l_write >>

\* listener.accept() yields the oldest connection of the backlog
Accept(i) ==
    /\ l_pc[i] = "listening"
    /\ backlog # << >>
    /\ l_stream' = [l_stream EXCEPT ![i] = Head(backlog)]
    /\ l_accepts' = [l_accepts EXCEPT ![i] = @ + 1]
    /\ backlog' = Tail(backlog)
    /\ client' = [client EXCEPT ![Head(backlog)] =
                                   [@ EXCEPT !.state = "accepted", !.accepted = TRUE]]
    /\ l_pc' = [l_pc EXCEPT ![i] = "accepted"]
    /\ UNCHANGED << port_owner, l_read, l_parsed, l_write, l_out >>

\* mutant: a failed accept returns while the listener stays bound
AcceptFailKeepsListener(i) ==
    /\ l_pc[i] = "listening"
    /\ l_out' = [l_out EXCEPT ![i] = Err("accept: io error")]
    /\ l_pc' = [l_pc EXCEPT ![i] = "done"]
    /\ UNCHANGED << port_owner, backlog, client >>
    /\ UNCHANGED << l_stream, l_read, l_accepts, l_parsed, l_write >>

\* listener.accept() fails
AcceptFail(i) ==
    /\ l_pc[i] = "listening"
    /\ Return(i, Err("accept: io error"), client)
    /\ UNCHANGED << l_stream, l_read, l_accepts, l_parsed, l_write >>

\* .ok_or("No authorization code in callback")?: without a code the call
\* returns the error, with one it goes on to write the response
code_or_error(i, cl, platform, code) ==
    IF code = None
    THEN /\ Return(i, Err(NoCodeError), cl)
         /\ UNCHANGED << l_stream, l_accepts, l_parsed, l_write >>
    ELSE /\ l_parsed' = [l_parsed EXCEPT ![i] = Ok(platform, code[1])]
         /\ l_pc' = [l_pc EXCEPT ![i] = "writing"]
         /\ client' = cl
         /\ UNCHANGED << port_owner, l_stream, l_accepts, l_write, l_out, backlog >>

\* platform and code are extracted from the path
parse_path(i, cl, path) == code_or_error(i, cl, extract_platform(path), extract_code(path))

\* the n bytes one read returned are parsed as the request
parse_request(i, n, text) ==
    /\ l_read' = [l_read EXCEPT ![i] = Some(n)]
    /\ parse_path(i, [client EXCEPT ![l_stream[i]].read = n], second_token(first_line(text)))

\* one stream.read() into the buffer returns what has arrived and fits
\* (nothing at the end of a stream that sent nothing)
Read(i) ==
    /\ l_pc[i] = "accepted"
    /\ \E arrived \in arrivals(client[l_stream[i]].request) :
         parse_request(i, min(arrived, BufferSize),
                       read_text(RequestTable[client[l_stream[i]].request],
                                 min(arrived, BufferSize)))

\* stream.read() fails
ReadFail(i) ==
    /\ l_pc[i] = "accepted"
    /\ Return(i, Err("read: io error"), client)
    /\ UNCHANGED << l_stream, l_read, l_accepts, l_parsed, l_write >>

\* stream.write_all(response) completes, then Ok((platform, code))
WriteOk(i) ==
    /\ l_pc[i] = "writing"
    /\ l_write' = [l_write EXCEPT ![i] = "ok"]
    /\ Return(i, l_parsed[i], [client EXCEPT ![l_stream[i]].response = "complete"])
    /\ UNCHANGED << l_stream, l_read, l_accepts, l_parsed >>

\* stream.write_all(response) fails: the error is returned by `?`
WriteFail(i) ==
    /\ l_pc[i] = "writing"
    /\ l_write' = [l_write EXCEPT ![i] = "failed"]
    /\ Return(i, Err("write: io error"), [client EXCEPT ![l_stream[i]].response = "incomplete"])
    /\ UNCHANGED << l_stream, l_read, l_accepts, l_parsed >>

\* a browser connects to the port while a listener is bound and sends its
\* request: the connection waits in the backlog until it is accepted
ClientConnect(c, requests) ==
    /\ client[c].state = "new"
    /\ connected_in_order(c)
    /\ port_owner # 0
    /\ \E request \in requests :
         client' = [client EXCEPT ![c] = [NewClient EXCEPT !.state = "queued",
                                                           !.request = request]]
    /\ backlog' = Append(backlog, c)
    /\ UNCHANGED << port_owner, l_pc, l_stream, l_read, l_accepts, l_parsed, l_write, l_out >>

\* the requests sent where several calls follow one another: a short one
\* with a code, and a connection closed without a request
PortRequests == { "bare_code", "nothing" }

\* the requests sent where there is one call: it accepts the first
\* connection, and of the later ones, which wait in the backlog, it reads
\* nothing
CallbackRequests ==
    IF \A c \in Clients : client[c].state = "new" THEN Requests ELSE { "nothing" }

\* no call was made before this one
only_call(i) == \A j \in Invocations : l_pc[j] = "idle"

\* a browser connects while nothing is bound: connection refused
ClientRefused(c) ==
    /\ client[c].state = "new"
    /\ connected_in_order(c)
    /\ port_owner = 0
    /\ client' = [client EXCEPT ![c].state = "refused"]
    /\ UNCHANGED << port_owner, l_pc, l_stream, l_read, l_accepts, l_parsed, l_write,
                    l_out, backlog >>

(***************************************************************************)
(* The adapters' other operations: get_auth_url, refresh_token and         *)
(* revoke_app of platforms/{github,google,microsoft}.rs.                   *)
(***************************************************************************)
Adapters == { "GitHubPlatform", "GooglePlatform", "MicrosoftPlatform" }

\* urlencoding::encode: every byte but the unreserved ones becomes %XX
percent_byte(b) == << "%", HexDigits[(b \div 16) + 1], HexDigits[(b % 16) + 1] >>

RECURSIVE urlencode(_, _)
urlencode(s, i) ==
    IF i > Len(s) THEN << >>
    ELSE (IF s[i] \in { char_of(cp) : cp \in (65..90) \cup (97..122) }
                      \cup Digits \cup { "-", "_", ".", "~" }
          THEN << s[i] >> ELSE percent_byte(char_byte(s[i])))
         \o urlencode(s, i + 1)

\* SCOPES.join(" ")
RECURSIVE join(_, _, _)
join(list, sep, i) ==
    IF i > Len(list) THEN << >>
    ELSE (IF i > 1 THEN sep ELSE << >>) \o list[i] \o join(list, sep, i + 1)

\* the static OAuth configuration of each adapter
github_CLIENT_ID == <<"Y","O","U","R","_","G","I","T","H","U","B","_","C","L","I","E","N","T","_","I","D">>
github_REDIRECT_URI == <<"h","t","t","p",":","/","/","l","o","c","a","l","h","o","s","t",":","8","7","4","2","/","c","a","l","l","b","a","c","k","/","g","i","t","h","u","b">>
github_AUTH_URL == <<"h","t","t","p","s",":","/","/","g","i","t","h","u","b",".","c","o","m","/","l","o","g","i","n","/","o","a","u","t","h","/","a","u","t","h","o","r","i","z","e">>
github_SCOPES ==
    << <<"r","e","a","d",":","u","s","e","r">>,
       <<"u","s","e","r",":","e","m","a","i","l">> >>
google_CLIENT_ID == <<"Y","O","U","R","_","G","O","O","G","L","E","_","C","L","I","E","N","T","_","I","D">>
google_REDIRECT_URI == <<"h","t","t","p",":","/","/","l","o","c","a","l","h","o","s","t",":","8","7","4","2","/","c","a","l","l","b","a","c","k","/","g","o","o","g","l","e">>
google_AUTH_URL == <<"h","t","t","p","s",":","/","/","a","c","c","o","u","n","t","s",".","g","o","o","g","l","e",".","c","o","m","/","o","/","o","a","u","t","h","2","/","v","2","/","a","u","t","h">>
google_SCOPES ==
    << <<"o","p","e","n","i","d">>,
       <<"e","m","a","i","l">>,
       <<"p","r","o","f","i","l","e">>,
       <<"h","t","t","p","s",":","/","/","w","w","w",".","g","o","o","g","l","e","a","p","i","s",".","c","o","m","/","a","u","t","h","/","u","s","e","r","i","n","f","o",".","e","m","a","i","l">> >>
microsoft_CLIENT_ID == <<"Y","O","U","R","_","M","I","C","R","O","S","O","F","T","_","C","L","I","E","N","T","_","I","D">>
microsoft_REDIRECT_URI == <<"h","t","t","p",":","/","/","l","o","c","a","l","h","o","s","t",":","8","7","4","2","/","c","a","l","l","b","a","c","k","/","m","i","c","r","o","s","o","f","t">>
microsoft_AUTH_URL == <<"h","t","t","p","s",":","/","/","l","o","g","i","n",".","m","i","c","r","o","s","o","f","t","o","n","l","i","n","e",".","c","o","m","/","c","o","n","s","u","m","e","r","s","/","o","a","u","t","h","2","/","v","2",".","0","/","a","u","t","h","o","r","i","z","e">>

\* format!("{}?client_id={}&redirect_uri={}&scope={}", ...); Ok(url)
github_get_auth_url ==
    [kind |-> "ok",
     url |-> github_AUTH_URL \o <<"?","c","l","i","e","n","t","_","i","d","=">> \o github_CLIENT_ID
             \o <<"&","r","e","d","i","r","e","c","t","_","u","r","i","=">> \o urlencode(github_REDIRECT_URI, 1)
             \o <<"&","s","c","o","p","e","=">> \o urlencode(join(github_SCOPES, << " " >>, 1), 1)]

google_get_auth_url ==
    [kind |-> "ok",
     url |-> google_AUTH_URL \o <<"?","c","l","i","e","n","t","_","i","d","=">> \o google_CLIENT_ID
             \o <<"&","r","e","d","i","r","e","c","t","_","u","r","i","=">> \o urlencode(google_REDIRECT_URI, 1)
             \o <<"&","r","e","s","p","o","n","s","e","_","t","y","p","e","=","c","o","d","e","&","s","c","o","p","e","=">>
             \o urlencode(join(google_SCOPES, << " " >>, 1), 1)
             \o <<"&","a","c","c","e","s","s","_","t","y","p","e","=","o","f","f","l","i","n","e","&","p","r","o","m","p","t","=","c","o","n","s","e","n","t">>]

microsoft_get_auth_url ==
    [kind |-> "ok",
     url |-> microsoft_AUTH_URL \o <<"?","c","l","i","e","n","t","_","i","d","=">> \o microsoft_CLIENT_ID
             \o <<"&","r","e","d","i","r","e","c","t","_","u","r","i","=">> \o urlencode(microsoft_REDIRECT_URI, 1)
             \o <<"&","r","e","s","p","o","n","s","e","_","t","y","p","e","=","c","o","d","e","&","s","c","o","p","e","=">>
             \o urlencode(join(microsoft_SCOPES, << " " >>, 1), 1)
             \o <<"&","r","e","s","p","o","n","s","e","_","m","o","d","e","=","q","u","e","r","y">>]

\* pub fn get_auth_url(platform); adapter is the adapter whose get_auth_url
\* was called
get_auth_url(platform) ==
    LET adapter == registry_adapter(platform)
    IN  CASE adapter = "GooglePlatform"    -> [adapter |-> adapter] @@ google_get_auth_url
          [] adapter = "MicrosoftPlatform" -> [adapter |-> adapter] @@ microsoft_get_auth_url
          [] adapter = "GitHubPlatform"    -> [adapter |-> adapter] @@ github_get_auth_url
          [] OTHER ->
                [kind |-> "err", adapter |-> NoAdapter, error |-> UnsupportedPlatform(platform)]


\* What the token endpoint and the user-info endpoint can answer.  Neither
\* refresh_token checks the status: send() fails, or the body is read as
\* JSON whatever the status.  An http_error carries the provider's JSON
\* error object, a bad_body is not JSON at all.
\* an i64 of a JSON body, by its sign and its decimal digits: a lifetime
\* of an hour, one in the past, one that ends at the last instant chrono
\* can represent when it starts at the first of Instants, one beyond that
\* instant, and i64::MAX
i64(neg, digits) == [neg |-> neg, digits |-> digits]
ExpiresIn ==
    { i64(FALSE, <<"3","6","0","0">>),
      i64(TRUE, <<"5">>),
      i64(FALSE, <<"8","2","0","8","4","7","3","5","5","8","3","9","9">>),
      i64(FALSE, <<"9","0","0","0","0","0","0","0","0","0","0","0","0","0","0","0">>),
      i64(FALSE, <<"9","2","2","3","3","7","2","0","3","6","8","5","4","7","7","5","8","0","7">>) }
TokenBodies ==
    { [access_token |-> "at-new", refresh_token |-> r, expires_in |-> e] :
        r \in { None, Some("rt-new") }, e \in { None } \cup { Some(x) : x \in ExpiresIn } }
TokenResponses ==
    FailedResponses \cup { [kind |-> "ok", body |-> b] : b \in TokenBodies }

GoogleUserInfoBodies ==
    { [email |-> "user@example.com", name |-> n] : n \in { None, Some("User") } }
MicrosoftUserInfoBodies ==
    { [userPrincipalName |-> u, mail |-> m, displayName |-> d] :
        u \in { None, Some("user@outlook.example") },
        m \in { None, Some("user@example.com") },
        d \in { None, Some("User") } }
UserInfoResponses(adapter) ==
    FailedResponses \cup
    { [kind |-> "ok", body |-> b] :
        b \in IF adapter = "GooglePlatform" THEN GoogleUserInfoBodies
              ELSE MicrosoftUserInfoBodies }

\* the refresh tokens a caller may pass
RefreshTokens == { "rt-old", "" }
\* the access tokens a caller may pass
AccessTokens == { "tok-valid", "tok-revoked" }

\* .send().await?.json::<TokenResponse>().await?: access_token and
\* token_type are required fields, which an error object lacks
token_response_json(resp) ==
    CASE resp.kind = "transport_error" -> [kind |-> "err", error |-> HttpError("send")]
      [] resp.kind = "ok"              -> [kind |-> "ok", body |-> resp.body]
      [] OTHER                         -> [kind |-> "err", error |-> HttpError("decode")]

\* google UserInfo { email: String, name: Option<String> }
google_user_info_json(resp) ==
    CASE resp.kind = "transport_error" -> [kind |-> "err", error |-> HttpError("send")]
      [] resp.kind = "ok"              -> [kind |-> "ok", body |-> resp.body]
      [] OTHER                         -> [kind |-> "err", error |-> HttpError("decode")]

\* microsoft UserInfo: every field is an Option, so any JSON object
\* deserializes, the error object of a rejected request included
microsoft_user_info_json(resp) ==
    CASE resp.kind = "transport_error" -> [kind |-> "err", error |-> HttpError("send")]
      [] resp.kind = "ok"              -> [kind |-> "ok", body |-> resp.body]
      [] resp.kind = "http_error"      ->
            [kind |-> "ok",
             body |-> [userPrincipalName |-> None, mail |-> None, displayName |-> None]]
      [] OTHER                         -> [kind |-> "err", error |-> HttpError("decode")]

\* mutant: the refresh token of the response is taken as it is
option_or_first_only(a, b) == a

\* Option::or
option_or(a, b) == IF a # None THEN a ELSE b

\* Option<String>::unwrap_or_default
unwrap_or_default(a) == IF a = None THEN "" ELSE a[1]

\* the value of a decimal digit
digit_value(d) == (CHOOSE k \in 1..10 : HexDigits[k] = d) - 1

\* a <= b from the i-th digit on, for two numerals of one length
RECURSIVE numeral_le(_, _, _)
numeral_le(a, b, i) ==
    IF i > Len(a) THEN TRUE
    ELSE IF a[i] = b[i] THEN numeral_le(a, b, i + 1)
    ELSE digit_value(a[i]) < digit_value(b[i])

\* a <= b for two numerals without leading zeros
magnitude_le(a, b) == Len(a) < Len(b) \/ (Len(a) = Len(b) /\ numeral_le(a, b, 1))

\* the digits of a + b from the k-th digit from the right on
RECURSIVE numeral_add(_, _, _, _)
numeral_add(a, b, k, carry) ==
    IF k > Len(a) /\ k > Len(b)
    THEN IF carry = 0 THEN << >> ELSE << HexDigits[carry + 1] >>
    ELSE numeral_add(a, b, k + 1,
            ((IF k <= Len(a) THEN digit_value(a[Len(a) + 1 - k]) ELSE 0)
             + (IF k <= Len(b) THEN digit_value(b[Len(b) + 1 - k]) ELSE 0) + carry) \div 10)
         \o << HexDigits[(((IF k <= Len(a) THEN digit_value(a[Len(a) + 1 - k]) ELSE 0)
                           + (IF k <= Len(b) THEN digit_value(b[Len(b) + 1 - k]) ELSE 0)
                           + carry) % 10) + 1] >>

\* chrono::Duration::seconds(e) panics beyond i64::MAX / 1000 seconds
duration_in_bounds(e) ==
    magnitude_le(e.digits, <<"9","2","2","3","3","7","2","0","3","6","8","5","4","7","7","5">>)

\* chrono::Utc::now(): the instants the clock may show when it is read, a
\* second of the year 2026 and one of 2036, as seconds after 1970; and the
\* last and the first second a DateTime<Utc> holds, as seconds after and
\* before 1970
Instants ==
    { <<"1","7","9","3","3","1","8","4","0","0">>,
      <<"2","1","0","8","9","3","7","6","0","0">> }
MAX_UTC == <<"8","2","1","0","2","6","6","8","7","6","7","9","9">>
MIN_UTC == <<"8","3","3","4","6","0","1","2","2","8","8","0","0">>

\* DateTime::checked_add_signed followed by to_rfc3339: the instant e
\* seconds from now, or None outside the range of DateTime
checked_add_signed(now, e) ==
    IF IF e.neg THEN magnitude_le(e.digits, numeral_add(now, MIN_UTC, 1, 0))
       ELSE magnitude_le(numeral_add(now, e.digits, 1, 0), MAX_UTC)
    THEN Some([seconds_from_now |-> e])
    ELSE None

Panic == [kind |-> "panic"]

\* expires_in.map(|e| Utc::now().checked_add_signed(Duration::seconds(e))
\*                    .map(|t| t.to_rfc3339()).unwrap_or_default())
token_expires_at(now, expires_in) ==
    IF expires_in = None THEN [kind |-> "ok", value |-> None]
    ELSE IF ~ duration_in_bounds(expires_in[1]) THEN Panic
    ELSE [kind |-> "ok",
          value |-> Some(unwrap_or_default(checked_add_signed(now, expires_in[1])))]

\* Ok(ConnectedAccount { .. }): a panic in the last computed field unwinds
\* the call
connected_account(account, expires_at) ==
    IF expires_at.kind = "panic" THEN Panic
    ELSE [kind |-> "ok", account |-> account @@ [token_expires_at |-> expires_at.value]]

\* GitHubPlatform::refresh_token
github_refresh_token(refresh_token) ==
    [kind |-> "err", error |-> OAuthError("GitHub tokens don't expire")]

\* GooglePlatform::refresh_token
google_refresh_token(refresh_token, token_resp, userinfo_resp, now) ==
    LET response == token_response_json(token_resp)
        user_info == google_user_info_json(userinfo_resp)
    IN  IF response.kind = "err" THEN response
        ELSE IF user_info.kind = "err" THEN user_info
        ELSE connected_account(
                          [platform |-> "google",
                           email |-> user_info.body.email,
                           display_name |-> user_info.body.name,
                           access_token |-> response.body.access_token,
                           refresh_token |-> option_or(response.body.refresh_token,
                                                       Some(refresh_token)),
                           scopes |-> google_SCOPES],
                          token_expires_at(now, response.body.expires_in))

\* MicrosoftPlatform::refresh_token
microsoft_refresh_token(refresh_token, token_resp, userinfo_resp, now) ==
    LET response == token_response_json(token_resp)
        user_info == microsoft_user_info_json(userinfo_resp)
        email == unwrap_or_default(option_or(user_info.body.mail,
                                             user_info.body.userPrincipalName))
    IN  IF response.kind = "err" THEN response
        ELSE IF user_info.kind = "err" THEN user_info
        ELSE connected_account(
                          [platform |-> "microsoft",
                           email |-> email,
                           display_name |-> user_info.body.displayName,
                           access_token |-> response.body.access_token,
                           refresh_token |-> option_or(response.body.refresh_token,
                                                       Some(refresh_token)),
                           scopes |-> microsoft_SCOPES],
                          token_expires_at(now, response.body.expires_in))

\* Platform::refresh_token on one adapter
refresh_token(adapter, token, n, now) ==
    CASE adapter = "GitHubPlatform"    -> github_refresh_token(token)
      [] adapter = "GooglePlatform"    -> google_refresh_token(token, n.token, n.userinfo, now)
      [] adapter = "MicrosoftPlatform" -> microsoft_refresh_token(token, n.token, n.userinfo, now)

\* the responses a refresh on `adapter` can meet: the user-info request is
\* sent only when the token response was read
RefreshNet(adapter) ==
    IF adapter = "GitHubPlatform" THEN { [token |-> Unused, userinfo |-> Unused] }
    ELSE { [token |-> r, userinfo |-> Unused] : r \in FailedResponses }
         \cup { [token |-> [kind |-> "ok", body |-> b], userinfo |-> u] :
                  b \in TokenBodies, u \in UserInfoResponses(adapter) }

\* the app ids a caller may pass to revoke_app
InstallationPrefix == <<"i","n","s","t","a","l","l","a","t","i","o","n","-">>
RevokeAppIds ==
    { InstallationPrefix \o << "7" >>,
      InstallationPrefix,
      <<"I","n","s","t","a","l","l","a","t","i","o","n","-","7">>,
      <<"1","0","1">>,
      <<"g","i","t","h","u","b","-","s","e","t","t","i","n","g","s","-","p","a","g","e">>,
      <<"g","o","o","g","l","e","-","p","e","r","m","i","s","s","i","o","n","s","-","p","a","g","e">>,
      <<"c","o","m","p","l","e","n","s","-","s","c","a","n","n","e","r">> }

\* what DELETE /user/installations/{id} can come to
DeleteResponses ==
    { [kind |-> "transport_error"], [kind |-> "http_error"], [kind |-> "ok"] }

\* mutant: the status of the DELETE is not looked at
github_revoke_app_any_status(app_id, delete_resp) ==
    IF starts_with(app_id, InstallationPrefix)
    THEN LET request == [method |-> "DELETE",
                         url |-> << "https://api.github.com/user/installations/",
                                    SubSeq(app_id, Len(InstallationPrefix) + 1, Len(app_id)) >>]
         IN  IF delete_resp.kind = "transport_error"
             THEN [kind |-> "err", error |-> HttpError("send"), requests |-> << request >>]
             ELSE [kind |-> "ok", value |-> None, requests |-> << request >>]
    ELSE [kind |-> "ok", value |-> Some("https://github.com/settings/applications"),
          requests |-> << >>]

\* GitHubPlatform::revoke_app; requests are the requests it sent
github_revoke_app(app_id, delete_resp) ==
    IF starts_with(app_id, InstallationPrefix)
    THEN LET request == [method |-> "DELETE",
                         url |-> << "https://api.github.com/user/installations/",
                                    SubSeq(app_id, Len(InstallationPrefix) + 1, Len(app_id)) >>]
         IN  IF delete_resp.kind = "transport_error"
             THEN [kind |-> "err", error |-> HttpError("send"), requests |-> << request >>]
             ELSE IF delete_resp.kind = "ok"
             THEN [kind |-> "ok", value |-> None, requests |-> << request >>]
             ELSE [kind |-> "ok", value |-> Some("https://github.com/settings/applications"),
                   requests |-> << request >>]
    ELSE [kind |-> "ok", value |-> Some("https://github.com/settings/applications"),
          requests |-> << >>]

\* GooglePlatform::revoke_app
google_revoke_app(app_id) ==
    [kind |-> "ok", value |-> Some("https://myaccount.google.com/permissions"),
     requests |-> << >>]

\* MicrosoftPlatform::revoke_app
microsoft_revoke_app(app_id) ==
    [kind |-> "ok", value |-> Some("https://account.live.com/consent/Manage"),
     requests |-> << >>]

\* Platform::revoke_app on one adapter
revoke_app(adapter, app_id, n) ==
    CASE adapter = "GitHubPlatform"    -> github_revoke_app(app_id, n.delete)
      [] adapter = "GooglePlatform"    -> google_revoke_app(app_id)
      [] adapter = "MicrosoftPlatform" -> microsoft_revoke_app(app_id)

\* the responses a revoke can meet: only the GitHub adapter sends a request,
\* and only for an installation
RevokeNet(adapter, app_id) ==
    IF adapter = "GitHubPlatform" /\ starts_with(app_id, InstallationPrefix)
    THEN { [delete |-> r] : r \in DeleteResponses }
    ELSE { [delete |-> Unused] }

\* the identifiers a caller may pass to the registry: "GitHub" and "" are
\* outside the closed set, as "yahoo" is
PlatformIds == { "github", "google", "microsoft", "yahoo", "GitHub", "" }

NoCall == [op |-> "none"]

\* platforms::get_auth_url(platform)
GetAuthUrl ==
    \E platform \in PlatformIds :
        /\ a_call' = [op |-> "get_auth_url", platform |-> platform]
        /\ a_net' = NoNet
        /\ a_out' = get_auth_url(platform)
        /\ UNCHANGED << cvars, svars, lvars, tvars >>

\* platforms::scan(platform, access_token)
Scan ==
    \E platform \in PlatformIds : \E access_token \in AccessTokens :
    \E n \in NetFor(platform) :
        /\ a_call' = [op |-> "scan", platform |-> platform, access_token |-> access_token]
        /\ a_net' = n
        /\ a_out' = scan(platform, n)
        /\ UNCHANGED << cvars, svars, lvars, tvars >>

\* adapter.refresh_token(refresh_token), called at the instant now
RefreshToken ==
    \E adapter \in Adapters : \E token \in RefreshTokens : \E n \in RefreshNet(adapter) :
    \E now \in Instants :
        /\ a_call' = [op |-> "refresh_token", adapter |-> adapter, refresh_token |-> token,
                      now |-> now]
        /\ a_net' = n
        /\ a_out' = refresh_token(adapter, token, n, now)
        /\ UNCHANGED << cvars, svars, lvars, tvars >>

\* adapter.revoke_app(access_token, app_id)
RevokeApp ==
    \E adapter \in Adapters : \E access_token \in AccessTokens :
    \E app_id \in RevokeAppIds : \E n \in RevokeNet(adapter, app_id) :
        /\ a_call' = [op |-> "revoke_app", adapter |-> adapter,
                      access_token |-> access_token, app_id |-> app_id]
        /\ a_net' = n
        /\ a_out' = revoke_app(adapter, app_id, n)
        /\ UNCHANGED << cvars, svars, lvars, tvars >>

(***************************************************************************)
(* commands.rs over the shared Database: the commands are called by        *)
(* concurrent tasks, each takes the connection mutex at its first line and *)
(* keeps the guard until it returns.  scan_account awaits the adapter in   *)
(* between, one step for each response the adapter waits for; get_apps and *)
(* revoke_app are one step each.                                           *)
(***************************************************************************)
Tasks == 1..MaxTasks

NoRowsError == << "Query returned no rows" >>

\* serde_json::from_str of a stored JSON text
from_json(text) == text.json

\* the App a row of the apps table is read into
app_of_row(r) ==
    [id |-> r.id,
     account_id |-> r.account_id,
     app_id |-> r.app_id,
     name |-> r.name,
     publisher |-> r.publisher,
     description |-> r.description,
     homepage_url |-> r.homepage_url,
     icon_url |-> r.icon_url,
     permissions |-> from_json(r.permissions),
     consent_type |-> r.consent_type,
     consented_at |-> r.consented_at,
     risk_level |-> r.risk_level,
     risk_factors |-> from_json(r.risk_factors),
     is_first_party |-> r.is_first_party,
     discovered_at |-> r.discovered_at]

\* CASE risk_level WHEN 'critical' THEN 0 WHEN 'high' THEN 1 WHEN 'medium' THEN 2 ELSE 3 END
risk_rank(level) ==
    CASE level = "critical" -> 0
      [] level = "high"     -> 1
      [] level = "medium"   -> 2
      [] OTHER              -> 3

\* the names an app row can carry, in the order of SQLite's BINARY collation
NamesInOrder ==
    << "Complens (this app)", "View all apps at GitHub", "View all apps at Google",
       "View all apps at Microsoft", "ci-bot", "deploy-app", "mailer", "org-admin",
       "profiler" >>
name_rank(name) == CHOOSE k \in 1..Len(NamesInOrder) : NamesInOrder[k] = name

\* ORDER BY CASE risk_level ... END, name
ordered_before(r1, r2) ==
    \/ risk_rank(r1.risk_level) < risk_rank(r2.risk_level)
    \/ /\ risk_rank(r1.risk_level) = risk_rank(r2.risk_level)
       /\ name_rank(r1.name) < name_rank(r2.name)

RECURSIVE order_rows(_)
order_rows(rows) ==
    IF rows = { } THEN << >>
    ELSE LET first == CHOOSE r \in rows : \A q \in rows : ~ ordered_before(q, r)
         IN  << first >> \o order_rows(rows \ { first })

\* get_apps: WHERE is_revoked = 0 [AND account_id = ?] [AND risk_level = ?]
get_apps(table, account_id, risk_level) ==
    LET rows == { r \in table :
                    /\ r.is_revoked = 0
                    /\ account_id # None => r.account_id = account_id[1]
                    /\ risk_level # None => r.risk_level = risk_level[1] }
        ordered == order_rows(rows)
    IN  [k \in 1..Len(ordered) |-> app_of_row(ordered[k])]

\* the requests the adapter of `platform` sends during a scan, by the
\* name of the response each one waits for, and as method and URL
scan_fields(platform) ==
    CASE platform = "github"    -> << "grants", "installations" >>
      [] platform = "google"    -> << "tokeninfo" >>
      [] platform = "microsoft" -> << "me" >>
      [] OTHER                  -> << >>

scan_requests(platform, access_token) ==
    CASE platform = "github" ->
            << "GET https://api.github.com/applications/grants",
               "GET https://api.github.com/user/installations" >>
      [] platform = "google" ->
            << "GET https://oauth2.googleapis.com/tokeninfo?access_token=" \o access_token >>
      [] platform = "microsoft" ->
            << "GET https://graph.microsoft.com/v1.0/me" >>
      [] OTHER -> << >>

\* the rows that INSERT OR REPLACE deletes when it stores `found`
replaced_rows(table, account_id, found) ==
    { r \in table : \E k \in 1..Len(found) :
        \/ r.id = row_id(account_id, found[k].app_id)
        \/ (r.account_id = account_id /\ r.app_id = found[k].app_id) }

\* the responses the scan of task t has received
answered(t) ==
    LET fields == scan_fields(t_account[t].platform)
    IN  Cardinality({ k \in 1..Len(fields) : t_net[t][fields[k]] # Unused })

\* tasks differ only by their number: of the idle ones the first makes the
\* next call of a command, which leaves out nothing but renamings
idle_in_order(t) == \A u \in Tasks : u < t => t_pc[u] # "idle"

\* scan_account up to its first await: the mutex is taken, the account is
\* read and, for an adapter the registry knows, the first discovery
\* request goes out; the guard stays held while the task waits
ScanAccountStart(t) ==
    \E account_id \in AccountIds :
        /\ t_pc[t] = "idle"
        /\ idle_in_order(t)
        /\ db_lock = 0
        /\ \/ /\ ~ \E a \in Accounts : a.id = account_id
              /\ scan_out' = [kind |-> "err", account_id |-> account_id,
                              error |-> NoRowsError]
              /\ cmd_out' = [op |-> "scan_account", account_id |-> account_id,
                             kind |-> "err", error |-> NoRowsError, requests |-> << >>]
              /\ net' = NoNet
              /\ apps' = << >>
              /\ UNCHANGED << db_lock, t_pc, t_account, t_net >>
           \/ \E a \in Accounts :
                /\ a.id = account_id
                /\ IF registry_adapter(a.platform) = NoAdapter
                   THEN /\ scan_out' = [kind |-> "err", account_id |-> account_id,
                                        error |-> error_to_string(UnsupportedPlatform(a.platform))]
                        /\ cmd_out' = [op |-> "scan_account", account_id |-> account_id,
                                       kind |-> "err",
                                       error |-> error_to_string(UnsupportedPlatform(a.platform)),
                                       requests |-> << >>]
                        /\ net' = NoNet
                        /\ apps' = << >>
                        /\ UNCHANGED << db_lock, t_pc, t_account, t_net >>
                   ELSE /\ clock < MaxScans
                        /\ db_lock' = t
                        /\ t_pc' = [t_pc EXCEPT ![t] = "awaiting"]
                        /\ t_account' = [t_account EXCEPT ![t] = a]
                        /\ t_net' = [t_net EXCEPT ![t] = NoNet]
                        /\ UNCHANGED << cmd_out, net, apps, scan_out >>
        /\ UNCHANGED << cvars, lvars, avars, apps_table, last_scanned_at, clock >>

\* the provider responses a scan can meet, by request
AllResponses ==
    [grants |-> GrantsResponses, installations |-> InstallationsResponses,
     tokeninfo |-> ProbeResponses, me |-> ProbeResponses]

\* the provider responses met by the scans of concurrent tasks: for GitHub,
\* one grant and one installation, each there or not, and one failure each
StoreGrantsResponses ==
    { [kind |-> "transport_error"], [kind |-> "ok", items |-> << >>] }
    \cup { [kind |-> "ok", items |-> << g >>] : g \in { h \in GrantUniverse : h.id = 101 } }
StoreInstallationsResponses ==
    { [kind |-> "http_error"] }
    \cup { [kind |-> "ok", items |-> << n >>] : n \in { m \in InstallationUniverse : m.id = 7 } }
StoreResponses ==
    [grants |-> StoreGrantsResponses, installations |-> StoreInstallationsResponses,
     tokeninfo |-> ProbeResponses, me |-> ProbeResponses]

\* scan_account suspended in the adapter: the response to a request that
\* is not the last arrives and the next request goes out
ScanAccountResponse(t, responses) ==
    /\ t_pc[t] = "awaiting"
    /\ LET fields == scan_fields(t_account[t].platform)
           k == answered(t) + 1
       IN  /\ k < Len(fields)
           /\ \E r \in responses[fields[k]] :
                t_net' = [t_net EXCEPT ![t] = [@ EXCEPT ![fields[k]] = r]]
    /\ UNCHANGED << cvars, svars, lvars, avars, db_lock, t_pc, t_account, cmd_out >>

\* scan_account after the adapter returned `found`: the apps are stored, the
\* account is stamped, the summary is returned and the guard is dropped
store_scan(t, account, n, found) ==
    /\ net' = n
    /\ apps' = found
    /\ clock' = clock + 1
    /\ apps_table' = store_apps(apps_table, account.id, found, clock + 1, 1)
    /\ last_scanned_at' = [last_scanned_at EXCEPT ![account.id] = Some(clock + 1)]
    /\ scan_out' = scan_summary(account.id, found)
    /\ cmd_out' = [op |-> "scan_account", account_id |-> account.id,
                   kind |-> "ok", result |-> scan_summary(account.id, found),
                   requests |-> scan_requests(account.platform, account.access_token),
                   apps |-> found,
                   replaced |-> replaced_rows(apps_table, account.id, found)]
    /\ db_lock' = 0
    /\ t_pc' = [t_pc EXCEPT ![t] = "idle"]
    /\ t_account' = [t_account EXCEPT ![t] = None]
    /\ t_net' = [t_net EXCEPT ![t] = NoNet]

\* the adapter's result on the responses n
adapter_returns(t, account, n) ==
    store_scan(t, account, n, platforms_scan(account.platform, n).apps)

\* the field of the response the adapter reads next
next_field(fields, t) == fields[answered(t) + 1]

\* scan_account from the adapter's last response on
ScanAccountFinish(t, responses) ==
    /\ t_pc[t] = "awaiting"
    /\ answered(t) + 1 = Len(scan_fields(t_account[t].platform))
    /\ \E r \in responses[next_field(scan_fields(t_account[t].platform), t)] :
         adapter_returns(t, t_account[t],
            [t_net[t] EXCEPT ![next_field(scan_fields(t_account[t].platform), t)] = r])
    /\ UNCHANGED << cvars, lvars, avars >>

\* the filters a caller may pass to get_apps
AccountFilters == { None, Some(<< "acc-gh" >>), Some(<< "acc-ms" >>) }
RiskFilters == { None, Some("high") }

\* get_apps
GetAppsCommand(t) ==
    \E account_id \in AccountFilters : \E risk_level \in RiskFilters :
        /\ t_pc[t] = "idle"
        /\ idle_in_order(t)
        /\ db_lock = 0
        /\ cmd_out' = [op |-> "get_apps", account_id |-> account_id, risk_level |-> risk_level,
                       kind |-> "ok", result |-> get_apps(apps_table, account_id, risk_level),
                       requests |-> << >>]
        /\ UNCHANGED << db_lock, t_pc, t_account, t_net, cvars, svars, lvars, avars >>

\* the row ids a caller may pass to revoke_app: those stored, and one that
\* is not
MissingRowId == << "acc-gh", ":", "no-such-app" >>
RevokeRowIds == { r.id : r \in apps_table } \cup { MissingRowId }

\* revoke_app
RevokeAppCommand(t) ==
    \E id \in RevokeRowIds :
        /\ t_pc[t] = "idle"
        /\ idle_in_order(t)
        /\ db_lock = 0
        /\ IF \E r \in apps_table : r.id = id
           THEN /\ apps_table' = { IF r.id = id THEN [r EXCEPT !.is_revoked = 1] ELSE r :
                                      r \in apps_table }
                /\ cmd_out' = [op |-> "revoke_app", app_id |-> id, kind |-> "ok",
                               requests |-> << >>]
           ELSE /\ cmd_out' = [op |-> "revoke_app", app_id |-> id, kind |-> "err",
                               error |-> NoRowsError, requests |-> << >>]
                /\ UNCHANGED apps_table
        /\ UNCHANGED << db_lock, t_pc, t_account, t_net, cvars, lvars, avars,
                        last_scanned_at, clock, net, apps, scan_out >>

(***************************************************************************)
(* Specifications.                                                         *)
(***************************************************************************)
InitOthers ==
    /\ apps_table = { }
    /\ last_scanned_at = [a \in AccountIds |-> None]
    /\ clock = 0
    /\ net = NoNet
    /\ apps = << >>
    /\ scan_out = NoResult
    /\ port_owner = 0
    /\ l_pc = [i \in Invocations |-> "idle"]
    /\ l_stream = [i \in Invocations |-> 0]
    /\ l_read = [i \in Invocations |-> None]
    /\ l_accepts = [i \in Invocations |-> 0]
    /\ l_parsed = [i \in Invocations |-> NoResult]
    /\ l_write = [i \in Invocations |-> "none"]
    /\ l_out = [i \in Invocations |-> NoResult]
    /\ backlog = << >>
    /\ client = [c \in Clients |-> NewClient]
    /\ a_call = NoCall
    /\ a_net = NoNet
    /\ a_out = NoResult
    /\ db_lock = 0
    /\ t_pc = [t \in Tasks |-> "idle"]
    /\ t_account = [t \in Tasks |-> None]
    /\ t_net = [t \in Tasks |-> NoNet]
    /\ cmd_out = NoCall

Init ==
    /\ c_perms = << >>
    /\ c_first_party = FALSE
    /\ c_out = NoResult
    /\ InitOthers

ClassifyInit ==
    /\ c_perms \in PermLists
    /\ c_first_party \in BOOLEAN
    /\ c_out = NoResult
    /\ InitOthers

\* the classifier on its own
ClassifyNext == Classify
ClassifySpec == ClassifyInit /\ [][ClassifyNext]_vars

\* the scan command over the three adapters and the apps table
ScanNext ==
    \/ \E t \in Tasks : ScanAccountStart(t)
    \/ \E t \in Tasks : ScanAccountResponse(t, AllResponses)
    \/ \E t \in Tasks : ScanAccountFinish(t, AllResponses)
ScanSpec == Init /\ [][ScanNext]_vars

\* the callback listener and the connections made to its port
ListenerNext ==
    \/ \E i \in Invocations : BindOk(i) /\ UNCHANGED << cvars, svars, avars, tvars >>
    \/ \E i \in Invocations : BindFail(i) /\ UNCHANGED << cvars, svars, avars, tvars >>
    \/ \E i \in Invocations : Accept(i) /\ UNCHANGED << cvars, svars, avars, tvars >>
    \/ \E i \in Invocations : AcceptFail(i) /\ UNCHANGED << cvars, svars, avars, tvars >>
    \/ \E i \in Invocations : Read(i) /\ UNCHANGED << cvars, svars, avars, tvars >>
    \/ \E i \in Invocations : ReadFail(i) /\ UNCHANGED << cvars, svars, avars, tvars >>
    \/ \E i \in Invocations : WriteOk(i) /\ UNCHANGED << cvars, svars, avars, tvars >>
    \/ \E i \in Invocations : WriteFail(i) /\ UNCHANGED << cvars, svars, avars, tvars >>
    \/ \E c \in Clients : ClientConnect(c, PortRequests) /\ UNCHANGED << cvars, svars, avars, tvars >>
    \/ \E c \in Clients : ClientRefused(c) /\ UNCHANGED << cvars, svars, avars, tvars >>
ListenerSpec == Init /\ [][ListenerNext]_vars

\* one call of the callback listener, with every request of the table
CallbackNext ==
    \/ \E i \in Invocations : only_call(i) /\ BindOk(i) /\ UNCHANGED << cvars, svars, avars, tvars >>
    \/ \E i \in Invocations : Accept(i) /\ UNCHANGED << cvars, svars, avars, tvars >>
    \/ \E i \in Invocations : AcceptFail(i) /\ UNCHANGED << cvars, svars, avars, tvars >>
    \/ \E i \in Invocations : Read(i) /\ UNCHANGED << cvars, svars, avars, tvars >>
    \/ \E i \in Invocations : ReadFail(i) /\ UNCHANGED << cvars, svars, avars, tvars >>
    \/ \E i \in Invocations : WriteOk(i) /\ UNCHANGED << cvars, svars, avars, tvars >>
    \/ \E i \in Invocations : WriteFail(i) /\ UNCHANGED << cvars, svars, avars, tvars >>
    \/ \E c \in Clients : ClientConnect(c, CallbackRequests) /\ UNCHANGED << cvars, svars, avars, tvars >>
    \/ \E c \in Clients : ClientRefused(c) /\ UNCHANGED << cvars, svars, avars, tvars >>
CallbackSpec == Init /\ [][CallbackNext]_vars

\* the registry and the adapters' operations, each called on its own
AdapterNext == GetAuthUrl \/ Scan \/ RefreshToken \/ RevokeApp
AdapterSpec == Init /\ [][AdapterNext]_vars

\* the commands over the shared Database, called by concurrent tasks
StoreNext ==
    \/ \E t \in Tasks : ScanAccountStart(t)
    \/ \E t \in Tasks : ScanAccountResponse(t, StoreResponses)
    \/ \E t \in Tasks : ScanAccountFinish(t, StoreResponses)
    \/ \E t \in Tasks : GetAppsCommand(t)
    \/ \E t \in Tasks : RevokeAppCommand(t)
StoreSpec == Init /\ [][StoreNext]_vars

Next == ClassifyNext \/ ScanNext \/ ListenerNext \/ CallbackNext \/ AdapterNext \/ StoreNext
Spec == ClassifyInit /\ [][Next]_vars

(***************************************************************************)
(* Claims about the scan summary (ScanSpec).                               *)
(***************************************************************************)
ScanDone == scan_out.kind = "ok"

LevelCount(levels) ==
    Cardinality({ i \in 1..Len(apps) : apps[i].risk_level \in levels })

\* C1: after every successful scan, high_risk_count + medium_risk_count +
\* low_risk_count = apps_found = len(apps), also when the list holds a
\* fallback entry of level info.
C1_CountsSumToAppsFound ==
    ScanDone =>
        /\ scan_out.apps_found = Len(apps)
        /\ scan_out.high_risk_count + scan_out.medium_risk_count
               + scan_out.low_risk_count = scan_out.apps_found

\* C2: after every successful scan, high_risk_count is the number of apps
\* whose level is exactly high or critical, medium_risk_count the number
\* whose level is exactly medium, low_risk_count the number whose level is
\* exactly low.
C2_CountsByExactLevel ==
    ScanDone =>
        /\ scan_out.high_risk_count = LevelCount({ "high", "critical" })
        /\ scan_out.medium_risk_count = LevelCount({ "medium" })
        /\ scan_out.low_risk_count = LevelCount({ "low" })

\* a scan whose list holds apps of all four levels the adapters produce
\* cannot exist (info only stands alone), so the witness takes the three
\* risk levels at once
C2_Witness ==
    /\ ScanDone
    /\ scan_out.high_risk_count = 1
    /\ scan_out.medium_risk_count = 1
    /\ scan_out.low_risk_count = 1

ScopeRepo == <<"r","e","p","o">>
ScopeReadUser == <<"r","e","a","d",":","u","s","e","r">>
PermContentsWrite == <<"c","o","n","t","e","n","t","s",":","w","r","i","t","e">>

\* the scenario of C3: GitHub answers with two grants, of scopes repo and
\* read:user, and one installation of permission contents:write
C3_Scenario ==
    /\ ScanDone
    /\ net.grants.kind = "ok"
    /\ Len(net.grants.items) = 2
    /\ net.grants.items[1].scopes = << ScopeRepo >>
    /\ net.grants.items[2].scopes = << ScopeReadUser >>
    /\ net.installations.kind = "ok"
    /\ Len(net.installations.items) = 1
    /\ installation_permissions(net.installations.items[1]) = << PermContentsWrite >>

\* C3 as stated: in the scenario the scan yields 3 apps and the summary
\* (high=2, medium=0, low=1).
C3_Original ==
    C3_Scenario =>
        /\ scan_out.apps_found = 3
        /\ scan_out.high_risk_count = 2
        /\ scan_out.medium_risk_count = 0
        /\ scan_out.low_risk_count = 1

\* C3 as amended: in the scenario the scan yields 3 apps, of levels high
\* (repo), medium (read:user is a medium-risk pattern) and low
\* (contents:write contains no pattern), and the summary (high=1,
\* medium=1, low=1).
C3_ScenarioSummary ==
    C3_Scenario =>
        /\ Len(apps) = 3
        /\ apps[1].risk_level = "high"
        /\ apps[2].risk_level = "medium"
        /\ apps[3].risk_level = "low"
        /\ scan_out.apps_found = 3
        /\ scan_out.high_risk_count = 1
        /\ scan_out.medium_risk_count = 1
        /\ scan_out.low_risk_count = 1

C3_Witness == C3_Scenario /\ scan_out.account_id = << "acc-gh" >>

\* a stored row without its two timestamps
NonTimestamp(r) == [f \in (DOMAIN r) \ { "discovered_at", "last_seen_at" } |-> r[f]]
StoredNonTimestamp(table) == { NonTimestamp(r) : r \in table }

OneRowPerApp ==
    \A r1 \in apps_table : \A r2 \in apps_table :
        (r1.account_id = r2.account_id /\ r1.app_id = r2.app_id) => r1 = r2

\* a scan of the account scanned last, discovering the same apps, leaves
\* the stored rows as they were but for the timestamps
RepeatedScanChangesNothing ==
    (/\ scan_out.kind = "ok"
     /\ scan_out'.kind = "ok"
     /\ clock' = clock + 1
     /\ scan_out'.account_id = scan_out.account_id
     /\ apps' = apps)
    => StoredNonTimestamp(apps_table') = StoredNonTimestamp(apps_table)

\* C21: storing discovered apps is idempotent, keyed by account_id and
\* app_id: after any sequence of scans there is at most one stored row per
\* (account_id, app_id), and repeating a scan that discovers the same apps
\* leaves the set of stored apps and their non-timestamp fields unchanged.
C21_StoreIdempotent ==
    /\ []OneRowPerApp
    /\ [][RepeatedScanChangesNothing]_vars

\* the Google account was scanned twice, nothing else was: its one app was
\* discovered both times and is stored once, with the time of the second
C21_Witness ==
    /\ clock = 2
    /\ scan_out.kind = "ok"
    /\ scan_out.account_id = << "acc-go" >>
    /\ \A a \in AccountIds : a # << "acc-go" >> => last_scanned_at[a] = None
    /\ Cardinality(apps_table) = 1
    /\ \A r \in apps_table : r.app_id = apps[1].app_id /\ r.last_seen_at = 2

(***************************************************************************)
(* Claims about the classifier (ClassifySpec).                             *)
(***************************************************************************)
Classified == c_out.kind = "ok"

\* the patterns of a list that some permission contains, case-insensitively
Matches(patterns) ==
    { j \in 1..Len(patterns) :
        \E k \in 1..Len(c_perms) : contains(to_lowercase(c_perms[k]), patterns[j]) }

HasFactorPrefixed(prefix) ==
    \E k \in 1..Len(c_out.risk_factors) : starts_with(c_out.risk_factors[k], prefix)

FirstPartyLevel == IF c_first_party THEN "medium" ELSE "high"

\* C4: when some permission contains a high-risk pattern, some factor
\* starts with "has high-risk permission:" and the level is high, or medium
\* for a first-party app.
C4_HighRiskFactorAndLevel ==
    (Classified /\ Matches(high_risk_patterns) # { }) =>
        /\ HasFactorPrefixed(<<"h","a","s"," ","h","i","g","h","-","r","i","s","k"," ","p","e","r","m","i","s","s","i","o","n",":">>)
        /\ c_out.risk_level = FirstPartyLevel

SmallestOf(set) == CHOOSE j \in set : \A k \in set : j <= k

\* C5: when no permission contains a high-risk pattern and some medium-risk
\* pattern is contained, the level is medium and there is exactly one
\* factor, that of the first matching pattern of the medium list, whatever
\* the number of matching patterns and the first-party flag.
C5_OneMediumFactor ==
    (Classified /\ Matches(high_risk_patterns) = { }
                /\ Matches(medium_risk_patterns) # { }) =>
        /\ c_out.risk_level = "medium"
        /\ c_out.risk_factors =
               << MediumFactorPrefix
                  \o medium_risk_patterns[SmallestOf(Matches(medium_risk_patterns))] >>

\* two medium patterns match, the later one of the list in the first
\* permission
C5_Witness ==
    /\ Classified
    /\ Matches(high_risk_patterns) = { }
    /\ Cardinality(Matches(medium_risk_patterns)) >= 2
    /\ Len(c_perms) = 2
    /\ ~ contains(to_lowercase(c_perms[1]),
                  medium_risk_patterns[SmallestOf(Matches(medium_risk_patterns))])
    /\ c_first_party

\* C6: for the empty list, and for every list none of whose permissions
\* contains a high-risk or medium-risk pattern, the level is low and the
\* factor list is empty, for both values of the first-party flag.
C6_NoMatchIsLow ==
    (Classified /\ Matches(high_risk_patterns) = { }
                /\ Matches(medium_risk_patterns) = { }) =>
        /\ c_out.risk_level = "low"
        /\ c_out.risk_factors = << >>

C6_Witness ==
    /\ Classified
    /\ c_perms = << >>
    /\ c_first_party
    /\ c_out.risk_level = "low"

\* the k-th smallest element of a set of numbers
NthOf(set, k) == CHOOSE j \in set : Cardinality({ m \in set : m < j }) = k - 1

\* C23: the classifier appends one factor for each high-risk pattern that
\* some permission contains, in the order of the high-risk list and
\* without stopping at the first, and when a high-risk factor was added
\* the result holds no medium-risk factor.
C23_HighFactorsAdditive ==
    (Classified /\ Matches(high_risk_patterns) # { }) =>
        /\ Len(c_out.risk_factors) = Cardinality(Matches(high_risk_patterns))
        /\ \A k \in 1..Len(c_out.risk_factors) :
              c_out.risk_factors[k] =
                  HighFactorPrefix \o high_risk_patterns[NthOf(Matches(high_risk_patterns), k)]
        /\ ~ HasFactorPrefixed(MediumFactorPrefix)

\* two high-risk patterns match, the earlier one of the list in the second
\* permission, and a medium-risk pattern matches as well
C23_Witness ==
    /\ Classified
    /\ Cardinality(Matches(high_risk_patterns)) >= 2
    /\ Matches(medium_risk_patterns) # { }
    /\ Len(c_perms) = 2
    /\ ~ contains(to_lowercase(c_perms[1]),
                  high_risk_patterns[SmallestOf(Matches(high_risk_patterns))])
    /\ Len(c_out.risk_factors) >= 2

(***************************************************************************)
(* Claims about the callback listener (ListenerSpec).                      *)
(***************************************************************************)
Sent(i, requests) == l_stream[i] # 0 /\ client[l_stream[i]].request \in requests

\* C7: when the request line of the accepted connection is
\* GET /callback/<p>?code=<c> HTTP/1.1 the listener returns (p, c), only
\* once the response is completely written, and a failed write is returned
\* in place of the pair; here for the request line
\* GET /callback/providerX?code=abc123 HTTP/1.1.
C7_PairAfterResponse ==
    \A i \in Invocations :
        /\ l_out[i].kind = "ok" => client[l_stream[i]].response = "complete"
        /\ l_write[i] = "failed" => l_out[i] = Err("write: io error")
        /\ (Sent(i, { "callback_plain" }) /\ l_write[i] = "ok")
               => l_out[i] = Ok(<<"p","r","o","v","i","d","e","r","X">>,
                                <<"a","b","c","1","2","3">>)

\* requests whose path has no code parameter
NoCodeRequests == { "error_only", "no_query", "codes_only" }

\* C8: when the path of the accepted request has no code parameter, the
\* invocation is over once it has read, with the missing-code error: no
\* pair, and no second accept.
C8_MissingCodeIsTerminal ==
    \A i \in Invocations :
        (l_read[i] # None /\ Sent(i, NoCodeRequests)) =>
            /\ l_pc[i] = "done"
            /\ l_out[i] = Err(NoCodeError)
            /\ l_accepts[i] = 1

AcceptedClients == { c \in Clients : client[c].accepted }

\* C9: an invocation accepts at most one connection, holds it from then on
\* whatever the outcome, and once it has returned it no longer owns the
\* port: a connection is accepted only by the one accept of an invocation.
C9_SingleAccept ==
    /\ \A i \in Invocations :
          /\ l_accepts[i] <= 1
          /\ l_accepts[i] = 1 <=> l_stream[i] # 0
          /\ l_accepts[i] = 1 => l_pc[i] \in { "accepted", "writing", "done" }
          /\ l_pc[i] = "done" => port_owner # i
    /\ AcceptedClients = { l_stream[i] : i \in Invocations } \ { 0 }
    /\ \A i \in Invocations : \A j \in Invocations :
          (i # j /\ l_stream[i] # 0) => l_stream[i] # l_stream[j]

\* the first connection was handled to the end, a second one that waited
\* in the backlog was reset and one made afterwards was refused
C9_Witness ==
    \E i \in Invocations : \E c \in Clients :
        /\ l_pc[i] = "done"
        /\ l_out[i].kind = "ok"
        /\ port_owner = 0
        /\ c # l_stream[i]
        /\ client[c].state = "reset"

\* requests whose path is not of the form /callback/<provider>?code=<value>:
\* another prefix, an unparseable URL, a path that continues the host, no
\* path, nothing at all
MalformedRequests == { "other_prefix", "bad_url", "joiner_host", "no_path", "nothing" }

\* C10: a request whose path is not of the form
\* /callback/<provider>?code=<value> ends the invocation with a failure and
\* never yields a pair.
C10_MalformedNeverYieldsPair ==
    \A i \in Invocations :
        (l_read[i] # None /\ Sent(i, MalformedRequests)) =>
            l_out[i].kind # "ok"

(***************************************************************************)
(* Claims about the registry and the adapters (AdapterSpec).               *)
(***************************************************************************)
RegistryCall == a_call.op \in { "get_auth_url", "scan" }
SupportedIds == { "github", "google", "microsoft" }

LastAppId(found) == found[Len(found)].app_id

\* the result in a_out is the work of `adapter` and of no other: an
\* authorization URL on its own endpoint, or the scan only it can return
ProducedBy(adapter) ==
    /\ a_out.kind = "ok"
    /\ a_out.adapter = adapter
    /\ IF a_call.op = "get_auth_url"
       THEN CASE adapter = "GitHubPlatform"    -> starts_with(a_out.url, github_AUTH_URL)
              [] adapter = "GooglePlatform"    -> starts_with(a_out.url, google_AUTH_URL)
              [] adapter = "MicrosoftPlatform" -> starts_with(a_out.url, microsoft_AUTH_URL)
       ELSE CASE adapter = "GitHubPlatform"    ->
                    a_out.apps = github_scan_apps(a_net.grants, a_net.installations)
              [] adapter = "GooglePlatform"    ->
                    LastAppId(a_out.apps) = << "google-permissions-page" >>
              [] adapter = "MicrosoftPlatform" ->
                    LastAppId(a_out.apps) = << "microsoft-consent-page" >>

\* C11: "github", "google" and "microsoft" are dispatched to three distinct
\* adapters; for every other identifier get_auth_url and scan both fail
\* with UnsupportedPlatform carrying that identifier and call no adapter.
C11_RegistryDispatch ==
    RegistryCall =>
        /\ a_call.platform = "github" => ProducedBy("GitHubPlatform")
        /\ a_call.platform = "google" => ProducedBy("GooglePlatform")
        /\ a_call.platform = "microsoft" => ProducedBy("MicrosoftPlatform")
        /\ a_call.platform \notin SupportedIds =>
              /\ a_out.kind = "err"
              /\ a_out.error = UnsupportedPlatform(a_call.platform)
              /\ a_out.adapter = NoAdapter

C11_Witness ==
    /\ a_call.op = "scan"
    /\ a_call.platform = "yahoo"
    /\ a_out.kind = "err"
    /\ a_out.error.arg = "yahoo"

GoogleScan == a_call.op = "scan" /\ a_call.platform = "google"

\* C12: Google discovery returns, for every access token and every outcome
\* of the tokeninfo request, exactly one app, of level info and first-party.
C12_GoogleOneInfoApp ==
    GoogleScan =>
        /\ a_out.kind = "ok"
        /\ Len(a_out.apps) = 1
        /\ a_out.apps[1].risk_level = "info"
        /\ a_out.apps[1].is_first_party

C12_Witness ==
    /\ GoogleScan
    /\ a_call.access_token = "tok-revoked"
    /\ a_net.tokeninfo.kind = "transport_error"
    /\ Len(a_out.apps) = 1

AdapterScan == a_call.op = "scan" /\ a_call.platform \in SupportedIds

\* C13: for every provider and every combination of outcomes of its
\* discovery sub-requests, the scan returns Ok and a list of at least one
\* item.
C13_ScanNeverFailsNorEmpty ==
    AdapterScan => a_out.kind = "ok" /\ Len(a_out.apps) >= 1

C13_Witness ==
    /\ a_call.op = "scan"
    /\ a_call.platform = "github"
    /\ a_net.grants.kind = "transport_error"
    /\ a_net.installations.kind = "bad_body"
    /\ a_out.kind = "ok"
    /\ a_out.apps = << github_fallback >>

GitHubRefresh == a_call.op = "refresh_token" /\ a_call.adapter = "GitHubPlatform"

\* C14: refresh_token on GitHub always fails with the error Unsupported,
\* a variant other than OAuthError and the transport error, and never
\* returns an account.
C14_RefreshIsUnsupported ==
    GitHubRefresh =>
        /\ a_out.kind = "err"
        /\ a_out.error.variant = "Unsupported"
        /\ a_out.error.variant \notin { "OAuthError", "HttpError" }

RevokeCall == a_call.op = "revoke_app"

\* a DELETE was sent to the provider and answered with a success status
DirectRevokeSucceeded ==
    /\ Len(a_out.requests) = 1
    /\ a_out.requests[1].method = "DELETE"
    /\ a_net.delete.kind = "ok"

ManagementPage(adapter) ==
    CASE adapter = "GitHubPlatform"    -> "https://github.com/settings/applications"
      [] adapter = "GooglePlatform"    -> "https://myaccount.google.com/permissions"
      [] adapter = "MicrosoftPlatform" -> "https://account.live.com/consent/Manage"

\* C15: revoke returns None only when a direct revoke request was sent and
\* the provider reported success, and Some(url) in every other outcome that
\* is not an error; on Google and Microsoft it returns Some(management
\* page) for every access token and app id, sends nothing and never fails.
C15_RevokeOutcome ==
    RevokeCall =>
        /\ a_out.kind = "ok" /\ DirectRevokeSucceeded => a_out.value = None
        /\ a_out.kind = "ok" /\ ~ DirectRevokeSucceeded =>
              a_out.value = Some(ManagementPage(a_call.adapter))
        /\ a_out.kind = "err" => a_call.adapter = "GitHubPlatform" /\ ~ DirectRevokeSucceeded
        /\ a_call.adapter \in { "GooglePlatform", "MicrosoftPlatform" } =>
              /\ a_out.kind = "ok"
              /\ a_out.value = Some(ManagementPage(a_call.adapter))
              /\ a_out.requests = << >>

C15_Witness ==
    /\ RevokeCall
    /\ a_call.adapter = "GitHubPlatform"
    /\ a_call.app_id = InstallationPrefix \o << "7" >>
    /\ a_net.delete.kind = "http_error"
    /\ a_out.kind = "ok"
    /\ a_out.value # None

ClientIdOf(adapter) ==
    CASE adapter = "GitHubPlatform"    -> github_CLIENT_ID
      [] adapter = "GooglePlatform"    -> google_CLIENT_ID
      [] adapter = "MicrosoftPlatform" -> microsoft_CLIENT_ID

\* a client identifier that was never filled in
IsPlaceholder(client_id) == client_id = << >> \/ starts_with(client_id, <<"Y","O","U","R","_">>)

\* C16: get_auth_url fails with ConfigurationError whenever the adapter's
\* client identifier is missing and returns a URL only when it is present;
\* no URL is built from a missing or placeholder client identifier.
C16_NoUrlFromPlaceholder ==
    a_call.op = "get_auth_url" /\ a_call.platform \in SupportedIds =>
        IF IsPlaceholder(ClientIdOf(registry_adapter(a_call.platform)))
        THEN a_out.kind = "err" /\ a_out.error.variant = "ConfigurationError"
        ELSE a_out.kind = "ok"

MicrosoftScan == a_call.op = "scan" /\ a_call.platform = "microsoft"

HasThisApp(found) == \E k \in 1..Len(found) : found[k] = microsoft_this_app

\* C19: Microsoft discovery emits the "this app" entry (level low) exactly
\* when the profile request succeeds, omits it when that request is
\* rejected or fails, and always ends with the info entry of the consent
\* page, so that the result has 1 or 2 entries.
C19_ThisAppIffProfileOk ==
    MicrosoftScan =>
        /\ a_out.kind = "ok"
        /\ HasThisApp(a_out.apps) <=> a_net.me.kind = "ok"
        /\ a_out.apps[Len(a_out.apps)] = microsoft_fallback
        /\ Len(a_out.apps) \in { 1, 2 }

RefreshedAccount ==
    /\ a_call.op = "refresh_token"
    /\ a_call.adapter \in { "GooglePlatform", "MicrosoftPlatform" }
    /\ a_out.kind = "ok"

\* C20: a successful refresh on Google or Microsoft returns an account
\* whose access token is the newly issued one and whose refresh token is
\* the one the provider returned if it returned one, otherwise the one
\* passed in; the refresh token of a refreshed account is never absent.
C20_RefreshCarriesToken ==
    RefreshedAccount =>
        /\ a_out.account.access_token = a_net.token.body.access_token
        /\ a_out.account.refresh_token =
              IF a_net.token.body.refresh_token # None
              THEN a_net.token.body.refresh_token
              ELSE Some(a_call.refresh_token)
        /\ a_out.account.refresh_token # None

C20_Witness ==
    /\ RefreshedAccount
    /\ a_call.refresh_token = "rt-old"
    /\ a_net.token.body.refresh_token = None
    /\ a_out.account.refresh_token = Some("rt-old")

GitHubScan == a_call.op = "scan" /\ a_call.platform = "github"

\* the app ids of a discovery result, in its order
AppIds(found) == [k \in 1..Len(found) |-> found[k].app_id]

\* the app ids that the items of each sub-request stand for
GrantIds(resp) ==
    IF resp.kind = "ok" THEN [k \in 1..Len(resp.items) |-> << ToString(resp.items[k].id) >>]
    ELSE << >>
InstallationIds(resp) ==
    IF resp.kind = "ok"
    THEN [k \in 1..Len(resp.items) |-> << "installation-", ToString(resp.items[k].id) >>]
    ELSE << >>

HasFallback(found) == \E k \in 1..Len(found) : found[k].risk_level = "info"

\* C24: in GitHub discovery the two sub-requests are independent: the
\* result is the apps of the grants that were read followed by the apps of
\* the installations that were read, a failure of one request removing
\* nothing of the other, and the info fallback entry is there if and only
\* if neither contributed an app, in which case it is alone.
C24_IndependentSubRequests ==
    GitHubScan =>
        LET contributed == GrantIds(a_net.grants) \o InstallationIds(a_net.installations)
        IN  /\ contributed # << >> => AppIds(a_out.apps) = contributed
            /\ HasFallback(a_out.apps) <=> contributed = << >>
            /\ HasFallback(a_out.apps) => a_out.apps = << github_fallback >>

C24_Witness ==
    /\ GitHubScan
    /\ a_net.grants.kind \in { "transport_error", "http_error", "bad_body" }
    /\ a_net.installations.kind = "ok"
    /\ Len(a_net.installations.items) = 1
    /\ AppIds(a_out.apps) = InstallationIds(a_net.installations)

(***************************************************************************)
(* Claims about concurrent listener invocations (ListenerSpec).            *)
(***************************************************************************)
HoldsListener(i) == l_pc[i] \in { "listening", "accepted", "writing" }

BindError == Err("bind: address in use")

\* an invocation that leaves "idle" while the port is taken ends in that
\* same step with the bind error: it does not wait and does not try again
BindFailsFast ==
    \A i \in Invocations :
        l_pc[i] = "idle" /\ port_owner # 0 /\ l_pc'[i] # "idle" =>
            /\ l_pc'[i] = "done"
            /\ l_out'[i] = BindError
            /\ l_accepts'[i] = 0
            /\ port_owner' = port_owner

\* C17: while one invocation is listening on the port, a second invocation
\* on that port fails at once with the bind error; it is never queued,
\* never binds again and never accepts, and at most one invocation owns
\* the port at any time.
C17_SecondBindFails ==
    /\ [](\A i \in Invocations : \A j \in Invocations :
             HoldsListener(i) /\ HoldsListener(j) => i = j)
    /\ [](\A i \in Invocations :
             l_out[i] = BindError => l_pc[i] = "done" /\ l_accepts[i] = 0 /\ l_stream[i] = 0)
    /\ [][BindFailsFast]_vars

C17_Witness ==
    /\ HoldsListener(1)
    /\ l_out[2] = BindError
    /\ l_pc[2] = "done"

\* the outcome of an invocation, once produced, is not replaced
OutcomeIsFinal ==
    \A i \in Invocations : l_out[i] # NoResult => l_out'[i] = l_out[i] /\ l_pc'[i] = "done"

\* C18: every invocation that ends has produced exactly one outcome, a
\* pair or an error, and on every exit path the listening socket is
\* released when the invocation ends, so that a later invocation on the
\* same port can bind.
C18_OneOutcomeAndRelease ==
    /\ [](\A i \in Invocations :
             /\ l_pc[i] = "done" <=> l_out[i] # NoResult
             /\ l_pc[i] = "done" => l_out[i].kind \in { "ok", "err" } /\ port_owner # i)
    /\ [](port_owner = 0 <=> ~ \E i \in Invocations : HoldsListener(i))
    /\ [][OutcomeIsFinal]_vars

C18_Witness ==
    /\ l_pc[1] = "done"
    /\ l_out[1] = Err("write: io error")
    /\ HoldsListener(2)
    /\ port_owner = 2

(***************************************************************************)
(* Claims about the commands over the shared Database (StoreSpec).         *)
(***************************************************************************)
\* C22: no lock is held across a network call: while a scan waits for the
\* adapter's discovery requests the connection mutex is free, so that
\* another storage operation can proceed.
C22_NoLockAcrossNetwork ==
    \A t \in Tasks : t_pc[t] = "awaiting" => db_lock = 0

ScanCompleted == cmd_out.op = "scan_account" /\ cmd_out.kind = "ok"

\* the app ids stored for an account and not flagged as revoked
NonRevokedIds(account_id) ==
    { r.app_id : r \in { q \in apps_table : q.account_id = account_id /\ q.is_revoked = 0 } }

\* C25: after a scan of an account completes, every app stored for it by
\* an earlier scan and absent from the current discovery result is marked
\* revoked: the non-revoked stored apps of the account are the apps just
\* discovered.
C25_UnseenAppsRevoked ==
    ScanCompleted =>
        NonRevokedIds(cmd_out.account_id) = { cmd_out.apps[k].app_id : k \in 1..Len(cmd_out.apps) }

\* the row of that id is among the apps get_apps returns
Listed(id) ==
    LET listed == get_apps(apps_table, None, None)
    IN  \E k \in 1..Len(listed) : listed[k].id = id

\* every row a completed scan has rewritten, flagged as revoked or not, is
\* stored with is_revoked = 0 and listed
RescanRevives ==
    ScanCompleted =>
        \A r \in cmd_out.replaced :
            /\ \E q \in apps_table : q.id = r.id /\ q.is_revoked = 0
            /\ Listed(r.id)

\* a revoke_app that returned Ok has flagged its row, changed nothing else
\* and sent nothing to the provider
RevokeOnlyFlags ==
    (cmd_out'.op = "revoke_app" /\ cmd_out'.kind = "ok") =>
        /\ \E r \in apps_table : r.id = cmd_out'.app_id
        /\ apps_table' = { IF r.id = cmd_out'.app_id THEN [r EXCEPT !.is_revoked = 1] ELSE r :
                             r \in apps_table }
        /\ cmd_out'.requests = << >>
        /\ LET listed == get_apps(apps_table', None, None)
           IN  \A k \in 1..Len(listed) : listed[k].id # cmd_out'.app_id

\* C26: a local revocation does not survive a rescan: after revoke_app has
\* flagged a stored app, a later scan_account of the same account whose
\* discovery result still holds that app rewrites the row with
\* is_revoked = 0 and get_apps lists it again; revoke_app changes only the
\* stored flag and never calls the adapter's revoke.
C26_RescanUndoesRevoke ==
    /\ []RescanRevives
    /\ [][RevokeOnlyFlags]_vars

C26_Witness ==
    /\ ScanCompleted
    /\ \E r \in cmd_out.replaced :
          /\ r.is_revoked = 1
          /\ \E k \in 1..Len(cmd_out.apps) : cmd_out.apps[k].app_id = r.app_id
          /\ Listed(r.id)

====
